---- MODULE Spec2Model ----
(***************************************************************************)
(* Multi-persona chat orchestration (GetUnifai/Unifai, agent/src/multi-    *)
(* agent): ChatWorkflowManager.processMessage, AgentSelector,              *)
(* ResponseFormatter and the /multi-agent-chat endpoint handler.           *)
(*                                                                         *)
(* JavaScript runs one task at a time: every action below is one           *)
(* synchronous segment of the code, from one suspension point (an await    *)
(* on generateText or on a setTimeout pause, or a timer callback) to the   *)
(* next.  Texts are TLA+ strings and are handled character by character.   *)
(***************************************************************************)
EXTENDS Integers, Sequences, FiniteSets, TLC

(***************************************************************************)
(* String primitives of the JavaScript runtime, as the code uses them.     *)
(***************************************************************************)
CharAt(s, i) == SubSeq(s, i, i)

UpperLetters == "ABCDEFGHIJKLMNOPQRSTUVWXYZ"

LowerLetters == "abcdefghijklmnopqrstuvwxyz"

Digits == "0123456789"

\* 1-based position of character ch in alphabet abc, 0 when absent
PosIn(abc, ch) ==
  IF \E i \in 1..Len(abc) : CharAt(abc, i) = ch
    THEN CHOOSE i \in 1..Len(abc) : CharAt(abc, i) = ch
    ELSE 0

IsUpper(ch) == PosIn(UpperLetters, ch) > 0

IsLower(ch) == PosIn(LowerLetters, ch) > 0

IsDigit(ch) == PosIn(Digits, ch) > 0

\* \w of a JavaScript regular expression
IsWordChar(ch) == IsUpper(ch) \/ IsLower(ch) \/ IsDigit(ch) \/ ch = "_"

\* \s of a JavaScript regular expression, and what String.trim removes
IsSpace(ch) == ch \in {" ", "\n", "\t", "\r"}

LowerChar(ch) == IF IsUpper(ch) THEN CharAt(LowerLetters, PosIn(UpperLetters, ch)) ELSE ch

UpperChar(ch) == IF IsLower(ch) THEN CharAt(UpperLetters, PosIn(LowerLetters, ch)) ELSE ch

RECURSIVE ToLowerCase(_)
\* String.prototype.toLowerCase, half by half
ToLowerCase(s) ==
  IF Len(s) = 0 THEN ""
  ELSE IF Len(s) = 1 THEN LowerChar(s)
  ELSE ToLowerCase(SubSeq(s, 1, Len(s) \div 2))
         \o ToLowerCase(SubSeq(s, Len(s) \div 2 + 1, Len(s)))

StartsWith(s, p) == Len(p) <= Len(s) /\ SubSeq(s, 1, Len(p)) = p

\* String.prototype.substring(from) and substring(from, to), 0-based
SubstringFrom(s, from) == SubSeq(s, from + 1, Len(s))

Substring(s, from, to) == SubSeq(s, from + 1, IF to > Len(s) THEN Len(s) ELSE to)

\* String.prototype.indexOf(t, from): 0-based index of the first occurrence at
\* or after from, -1 when there is none
IndexOfFrom(s, t, from) ==
  LET hits == { i \in from..(Len(s) - Len(t)) : SubSeq(s, i + 1, i + Len(t)) = t }
  IN  IF hits = {} THEN -1 ELSE CHOOSE i \in hits : \A j \in hits : i <= j

IndexOf(s, t) == IndexOfFrom(s, t, 0)

Includes(s, t) == IndexOf(s, t) >= 0

RECURSIVE TrimStart(_)
TrimStart(s) ==
  IF Len(s) > 0 /\ IsSpace(Head(s)) THEN TrimStart(Tail(s)) ELSE s

RECURSIVE TrimEnd(_)
TrimEnd(s) ==
  IF Len(s) > 0 /\ IsSpace(CharAt(s, Len(s))) THEN TrimEnd(SubSeq(s, 1, Len(s) - 1)) ELSE s

Trim(s) == TrimEnd(TrimStart(s))

\* Array.prototype.includes and indexOf on a sequence
InSeq(q, x) == \E i \in 1..Len(q) : q[i] = x

\* a filter that would keep every element
FilterOutNothing(q, x) == q

RECURSIVE FilterOut(_, _)
\* the elements of q other than x, in order
FilterOut(q, x) ==
  IF q = <<>> THEN <<>>
  ELSE IF Head(q) = x THEN FilterOut(Tail(q), x)
  ELSE <<Head(q)>> \o FilterOut(Tail(q), x)

\* Array.prototype.slice(0, n)
Take(q, n) == SubSeq(q, 1, IF n < Len(q) THEN n ELSE Len(q))

\* Array.prototype.slice(-n)
LastN(q, n) == SubSeq(q, IF Len(q) > n THEN Len(q) - n + 1 ELSE 1, Len(q))

Min(a, b) == IF a < b THEN a ELSE b

Max(a, b) == IF a > b THEN a ELSE b

\* A value that is tabulated for the inputs of the model is read from its
\* table; for any other input it is computed.  The result is the same.
Memo(table, key, computed) == IF key \in DOMAIN table THEN table[key] ELSE computed

\* a function with every value computed
Tabulated(f) == f @@ [z \in {} |-> z]

\* agent.split(' ')[1]: the second space-separated piece, "" when there is none
FirstNameOf(agent) ==
  LET sp == IndexOf(agent, " ")
  IN  IF sp < 0 THEN ""
      ELSE LET rest == SubstringFrom(agent, sp + 1)
               sp2  == IndexOf(rest, " ")
           IN  IF sp2 < 0 THEN rest ELSE Substring(rest, 0, sp2)

(***************************************************************************)
(* Personas and runtimes.                                                  *)
(***************************************************************************)
\* ChatWorkflowManager.defaultAgentSequence
defaultAgentSequence == <<"Analyst Alex", "Curious Clara", "Strategic Sam">>

AgentNames == { defaultAgentSequence[i] : i \in 1..Len(defaultAgentSequence) }

\* A runtime as the endpoint's validation lets it through: modelProvider and
\* character are set; generateText says whether modelProvider.generateText is
\* a function.
RuntimeOk(name) == [generateText |-> TRUE, character |-> [name |-> name, system |-> ""]]

RuntimeNoGenerate(name) == [generateText |-> FALSE, character |-> [name |-> name, system |-> ""]]

\* runtime.character of a runtime that has none (undefined)
NoCharacter == [name |-> "", system |-> ""]

\* A runtime as a caller that constructs the manager itself may hand over:
\* modelProvider.generateText is a function, character is not set
RuntimeNoCharacter(name) == [generateText |-> TRUE, character |-> NoCharacter]

\* The rosters the manager is constructed with: every persona usable, or
\* Curious Clara without a generation capability
RuntimeConfigs ==
  { [a \in AgentNames |-> RuntimeOk(a)],
    [a \in AgentNames |-> IF a = "Curious Clara" THEN RuntimeNoGenerate(a) ELSE RuntimeOk(a)] }

(***************************************************************************)
(* The inputs the model draws.                                             *)
(***************************************************************************)
\* session ids; "default" is the one a call without session id gets
Sessions == {"default", "s2"}

\* user messages: one persona addressed, none addressed, and one that
\* addresses the persona that may lack a generation capability
Messages == {"Alex, plan idea", "plan idea", "Clara: new topic"}

\* what generateText resolves to, when it resolves
GenTexts == {"(hm) ok.", "  ", ""}

\* user messages for the resolution of the speaking order: one persona
\* addressed next to a domain keyword and a comprehensive cue, one addressed,
\* none addressed, two addressed against the order of the roster, and a full
\* name at the start with no punctuation after it
OrderMessages ==
  {"Clara, all token", "Alex, plan idea", "plan idea", "Sam, Alex: go", "Analyst Alex what now"}

\* the messages the tables below are computed for
TableMessages == Messages \cup OrderMessages

\* user messages for AgentSelector.selectAgents taken on its own: a
\* comprehensive cue with and without a persona mentioned, a focused cue with
\* and without a domain keyword, both cues, no cue but a keyword of Analyst
\* Alex and one of Curious Clara of equal weight, and a domain keyword with
\* two personas mentioned, the later of the roster first
SelectorMessages ==
  {"Hello everyone", "Everyone, ask Sam", "Briefly say hi", "Briefly: the token",
   "Briefly, everyone", "Well say: idea data", "Ask Sam, hey Clara: token"}

\* the highest turn number of a context handed to selectAgents
MaxSelectorTurn == 4

\* the number of processMessage calls (requests) of a behaviour
MaxCalls == 2
MaxRequests == 1

\* the number of turns of a conversation held turn after turn
MaxTurns == 3

\* message.toLowerCase() for these messages
LowerCaseTable ==
  Tabulated([m \in TableMessages \cup SelectorMessages \cup {""} |-> ToLowerCase(m)])

LoweredMessages == { LowerCaseTable[m] : m \in DOMAIN LowerCaseTable }

(***************************************************************************)
(* AgentSelector (chat-endpoint.ts, second half).  Every Math.random()     *)
(* draw is a parameter, in thousandths: r stands for the draw r / 1000.    *)
(***************************************************************************)
Random == {0, 500, 999}

blockchainKeywords == <<"wallet", "token", "solana", "blockchain", "crypto">>

\* [1-9A-HJ-NP-Za-km-z]
IsBase58(ch) ==
  \/ IsDigit(ch) /\ ch # "0"
  \/ IsUpper(ch) /\ ch \notin {"I", "O"}
  \/ IsLower(ch) /\ ch # "l"

\* /\b[1-9A-HJ-NP-Za-km-z]{32,44}\b/ matches somewhere in s
HasSolanaAddress(s) ==
  /\ Len(s) >= 32
  /\ \E i \in 1..(Len(s) - 31) : \E n \in 32..44 :
       /\ i + n - 1 <= Len(s)
       /\ \A j \in i..(i + n - 1) : IsBase58(CharAt(s, j))
       /\ (i = 1 \/ ~IsWordChar(CharAt(s, i - 1)))
       /\ (i + n - 1 = Len(s) \/ ~IsWordChar(CharAt(s, i + n)))

\* terms.some(term => s.includes(term))
IncludesAny(s, terms) == \E k \in 1..Len(terms) : Includes(s, terms[k])

\* a test of the specialized domain that would look for an address only
IsBlockchainQueryAddressOnly(messageLower) == HasSolanaAddress(messageLower)

IsBlockchainQuery(messageLower) ==
  HasSolanaAddress(messageLower) \/ IncludesAny(messageLower, blockchainKeywords)

IsBlockchainQueryTable == Tabulated([ml \in LoweredMessages |-> IsBlockchainQuery(ml)])

\* the literal t occurs in s at position i (1-based)
MatchesAt(s, i, t) == i + Len(t) - 1 <= Len(s) /\ SubSeq(s, i, i + Len(t) - 1) = t

BoundaryAt(s, i) ==
  \* \b between position i-1 and i (1-based; i = Len(s)+1 is the end)
  LET before == i > 1 /\ IsWordChar(CharAt(s, i - 1))
      after  == i <= Len(s) /\ IsWordChar(CharAt(s, i))
  IN  before # after

\* one or more \s starting at position i: the positions right after the run
SpaceRunEnds(s, i) ==
  { j \in (i + 1)..(Len(s) + 1) : \A k \in i..(j - 1) : IsSpace(CharAt(s, k)) }

\* the six directPatterns of getExplicitlyMentionedAgents, for one first name
MatchesDirectPattern(messageLower, firstName) ==
  LET s == messageLower
      n == firstName
      NameAt(i) == MatchesAt(s, i, n)
      L == Len(n)
  IN  \E i \in 1..Len(s) :
        \* \bname,\s and \bname:\s
        \/ /\ BoundaryAt(s, i) /\ NameAt(i)
           /\ (MatchesAt(s, i + L, ",") \/ MatchesAt(s, i + L, ":"))
           /\ i + L + 1 <= Len(s) /\ IsSpace(CharAt(s, i + L + 1))
        \* \bask\s+name\b
        \/ /\ BoundaryAt(s, i) /\ MatchesAt(s, i, "ask")
           /\ \E j \in SpaceRunEnds(s, i + 3) : NameAt(j) /\ BoundaryAt(s, j + L)
        \* \bname\s+please\b
        \/ /\ BoundaryAt(s, i) /\ NameAt(i)
           /\ \E j \in SpaceRunEnds(s, i + L) :
                MatchesAt(s, j, "please") /\ BoundaryAt(s, j + 6)
        \* \bhey\s+name\b
        \/ /\ BoundaryAt(s, i) /\ MatchesAt(s, i, "hey")
           /\ \E j \in SpaceRunEnds(s, i + 3) : NameAt(j) /\ BoundaryAt(s, j + L)
        \* \bwhat\s+(?:do|does|would)\s+name\s+think
        \/ /\ BoundaryAt(s, i) /\ MatchesAt(s, i, "what")
           /\ \E j \in SpaceRunEnds(s, i + 4) : \E verb \in {"do", "does", "would"} :
                /\ MatchesAt(s, j, verb)
                /\ \E k \in SpaceRunEnds(s, j + Len(verb)) :
                     /\ NameAt(k)
                     /\ \E m \in SpaceRunEnds(s, k + L) : MatchesAt(s, m, "think")

\* AgentSelector.getExplicitlyMentionedAgents, for one agent
IsExplicitlyMentioned(messageLower, agent) ==
  LET agentLower == ToLowerCase(agent)
      firstName  == ToLowerCase(FirstNameOf(agent))
  IN  /\ firstName # ""
      /\ \/ StartsWith(messageLower, firstName \o ",")
         \/ StartsWith(messageLower, firstName \o ":")
         \/ StartsWith(messageLower, agentLower \o ",")
         \/ StartsWith(messageLower, agentLower \o ":")
         \/ MatchesDirectPattern(messageLower, firstName)
         \/ /\ Includes(messageLower, firstName) \/ Includes(messageLower, agentLower)
            /\ Includes(messageLower, "?")

RECURSIVE SelectSeq2(_, _)
\* Array.prototype.filter with a predicate given as the set of elements kept
SelectSeq2(q, keep) ==
  IF q = <<>> THEN <<>>
  ELSE IF Head(q) \in keep THEN <<Head(q)>> \o SelectSeq2(Tail(q), keep)
  ELSE SelectSeq2(Tail(q), keep)

\* the personas mentioned, the last of the roster first
getExplicitlyMentionedAgentsReversed(messageLower, availableAgents) ==
  LET mentioned == SelectSeq2(availableAgents,
                     { availableAgents[i] : i \in { j \in 1..Len(availableAgents) :
                         IsExplicitlyMentioned(messageLower, availableAgents[j]) } })
  IN  [i \in 1..Len(mentioned) |-> mentioned[Len(mentioned) + 1 - i]]

getExplicitlyMentionedAgents(messageLower, availableAgents) ==
  SelectSeq2(availableAgents,
             { availableAgents[i] : i \in { j \in 1..Len(availableAgents) :
                 IsExplicitlyMentioned(messageLower, availableAgents[j]) } })

getExplicitlyMentionedAgentsTable ==
  Tabulated([ml \in LoweredMessages, agents \in {defaultAgentSequence} |->
               getExplicitlyMentionedAgents(ml, agents)])

\* a list of comprehensive cues that would lack "everyone"
comprehensiveTermsWithoutEveryone == <<"all", "each", "debate", "discuss", "perspectives">>

comprehensiveTerms == <<"everyone", "all", "each", "debate", "discuss", "perspectives">>

\* a list of focused cues that would lack "briefly"
focusedTermsWithoutBriefly == <<"quick", "short", "simple", "just one">>

focusedTerms == <<"briefly", "quick", "short", "simple", "just one">>

\* a count that would test the focused cues before the comprehensive ones
determineResponseCountFocusedFirst(context, message, r1, r2) ==
  LET turn == IF context.turn = 0 THEN 1 ELSE context.turn
  IN  IF turn <= 2 THEN 3
      ELSE IF IncludesAny(message, focusedTerms) THEN 1
      ELSE IF IncludesAny(message, comprehensiveTerms) THEN 3
      ELSE IF r1 < Min(400, 150 + turn * 50) THEN 1
      ELSE IF r2 < Min(500, 200 + turn * 30) THEN 2
      ELSE 3

\* AgentSelector.determineResponseCount; r1, r2 are the two Math.random() draws
determineResponseCount(context, message, r1, r2) ==
  LET turn == IF context.turn = 0 THEN 1 ELSE context.turn
      \* Math.min(0.4, 0.15 + turn * 0.05), Math.min(0.5, 0.2 + turn * 0.03)
      singleAgentChance == Min(400, 150 + turn * 50)
      twoAgentChance    == Min(500, 200 + turn * 30)
  IN  IF turn <= 2 THEN 3
      ELSE IF IncludesAny(message, comprehensiveTerms) THEN 3
      ELSE IF IncludesAny(message, focusedTerms) THEN 1
      ELSE IF r1 < singleAgentChance THEN 1
      ELSE IF r2 < twoAgentChance THEN 2
      ELSE 3

\* agentKeywords of rankAgentsByRelevance (repeated keywords count twice)
agentKeywords(agent) ==
  CASE agent = "Analyst Alex" ->
         <<"data", "analysis", "statistics", "numbers", "research", "evidence", "metrics",
           "probability", "risks", "facts", "study", "report", "measure", "quantify",
           "costs", "investment", "budget", "finance", "economic", "economy", "market",
           "price", "profit", "revenue", "growth", "forecast", "projection", "trend",
           "technical", "calculation", "algorithm", "model", "estimate", "precision",
           "accurate", "analytical", "breakdown", "comparison", "correlation", "statistics">>
    [] agent = "Curious Clara" ->
         <<"creative", "innovation", "imagine", "possibility", "idea", "what if",
           "future", "design", "different", "curious", "dream", "alternative",
           "wonder", "create", "invent", "inspire", "transform", "reimagine",
           "experiment", "explore", "discover", "question", "challenge", "possibility",
           "potential", "unprecedented", "unconventional", "unusual", "outside the box",
           "could", "might", "may", "perhaps", "possibly", "imagine", "consider",
           "theoretically", "hypothetically", "creatively", "wildly", "brainstorm">>
    [] agent = "Strategic Sam" ->
         <<"plan", "strategy", "implementation", "decision", "approach", "goal",
           "objective", "next steps", "roadmap", "action", "practical", "solution",
           "execute", "prioritize", "timeline", "milestone", "coordinate", "organize",
           "manage", "lead", "direct", "guide", "align", "streamline", "implement",
           "realistic", "effective", "efficient", "practical", "achievable", "tangible",
           "concrete", "step-by-step", "systematic", "structured", "method", "process",
           "framework", "best practice", "recommendation", "priority", "tradeoff">>
    [] OTHER -> <<>>

RECURSIVE SumSeq(_)
SumSeq(q) == IF q = <<>> THEN 0 ELSE Head(q) + SumSeq(Tail(q))

\* Scores are kept as integers: a score x of the code is x * 10000 * ScoreUnit,
\* with ScoreUnit = Math.min(100, messageLower.length) the divisor of
\* positionWeight.
ScoreUnit(messageLower) == Min(100, Len(messageLower))

\* the keyword part of an agent's score: the sum of
\* Math.max(0.5, 1 - keywordIndex / Math.min(100, length)) over the keywords found
KeywordScore(messageLower, agent) ==
  LET kws == agentKeywords(agent)
      D   == ScoreUnit(messageLower)
  IN  SumSeq([k \in 1..Len(kws) |->
        LET keywordIndex == IndexOf(messageLower, kws[k])
        IN  IF keywordIndex >= 0 THEN Max(5000 * D, 10000 * (D - keywordIndex)) ELSE 0])

KeywordScoreTable ==
  Tabulated([ml \in LoweredMessages, a \in AgentNames |-> KeywordScore(ml, a)])

\* how many of the last 6 history entries are assistant entries of this agent
RecentSpeakerCount(context, agent) ==
  LET recent == LastN(context.messageHistory, 6)
  IN  Cardinality({ i \in 1..Len(recent) :
                      recent[i].role = "assistant" /\ recent[i].name = agent })

\* a score whose penalty for the last speaker would be 1.5
AgentBaseScoreSmallPenalty(messageLower, agent, context) ==
  LET D == ScoreUnit(messageLower)
  IN  Memo(KeywordScoreTable, <<messageLower, agent>>, KeywordScore(messageLower, agent))
      - (IF agent = context.lastAgent THEN 15000 * D ELSE 0)
      + (IF RecentSpeakerCount(context, agent) = 0 THEN 15000 * D ELSE 0)

\* the score of one agent before the random factor is added
AgentBaseScore(messageLower, agent, context) ==
  LET D == ScoreUnit(messageLower)
  IN  Memo(KeywordScoreTable, <<messageLower, agent>>, KeywordScore(messageLower, agent))
      - (IF agent = context.lastAgent THEN 25000 * D ELSE 0)
      + (IF RecentSpeakerCount(context, agent) = 0 THEN 15000 * D ELSE 0)

RECURSIVE SortByScore(_, _)
\* agentScores.sort((a, b) => b.score - a.score): descending, ties keep their order
SortByScore(agents, score) ==
  IF agents = <<>> THEN <<>>
  ELSE LET best == CHOOSE i \in 1..Len(agents) :
                     /\ \A j \in 1..Len(agents) : score[agents[i]] >= score[agents[j]]
                     /\ \A j \in 1..(i - 1) : score[agents[j]] < score[agents[i]]
       IN  <<agents[best]>> \o
           SortByScore(SubSeq(agents, 1, best - 1) \o SubSeq(agents, best + 1, Len(agents)),
                       score)

\* the sort of rankAgentsByRelevance, given the scores before the random
\* factor: score += Math.random() * 0.3, then sort
RankWith(availableAgents, base, unit, jitter) ==
  SortByScore(availableAgents,
              [a \in DOMAIN base |-> base[a] + 3 * jitter[a] * unit])

\* AgentSelector.rankAgentsByRelevance; jitter[agent] is the agent's random draw
rankAgentsByRelevance(messageLower, availableAgents, context, jitter) ==
  RankWith(availableAgents,
           [a \in { availableAgents[i] : i \in 1..Len(availableAgents) } |->
              AgentBaseScore(messageLower, a, context)],
           ScoreUnit(messageLower), jitter)

\* relationshipPatterns[lastAgent]: the followers in key order, with their
\* probabilities in thousandths
relationshipPatterns(lastAgent) ==
  CASE lastAgent = "Analyst Alex" ->
         << <<"Curious Clara", 750>>, <<"Strategic Sam", 500>> >>
    [] lastAgent = "Curious Clara" ->
         << <<"Strategic Sam", 800>>, <<"Analyst Alex", 400>> >>
    [] lastAgent = "Strategic Sam" ->
         << <<"Analyst Alex", 600>>, <<"Curious Clara", 500>> >>
    [] OTHER -> <<>>

\* a reordering that would not look whether the follower is in the order
applyRelationshipBasedOrderingAnyFollower(baseOrder, context, r0, rf) ==
  LET patterns == relationshipPatterns(context.lastAgent)
      hits == { k \in 1..Len(patterns) :
                  /\ rf[k] < patterns[k][2]
                  /\ patterns[k][1] # context.lastAgent }
  IN  IF context.lastAgent = "" \/ Len(baseOrder) < 2 \/ context.turn < 2 THEN baseOrder
      ELSE IF r0 > 600 THEN baseOrder
      ELSE IF hits = {} THEN baseOrder
      ELSE LET k == CHOOSE h \in hits : \A g \in hits : h <= g
               follower == patterns[k][1]
           IN  <<follower>> \o FilterOut(baseOrder, follower)

\* AgentSelector.applyRelationshipBasedOrdering; r0 is the draw of the 0.6 test,
\* rf[k] the draw made for the k-th potential follower
applyRelationshipBasedOrdering(baseOrder, context, r0, rf) ==
  LET patterns == relationshipPatterns(context.lastAgent)
      hits == { k \in 1..Len(patterns) :
                  /\ InSeq(baseOrder, patterns[k][1])
                  /\ rf[k] < patterns[k][2]
                  /\ patterns[k][1] # context.lastAgent }
  IN  IF context.lastAgent = "" \/ Len(baseOrder) < 2 \/ context.turn < 2 THEN baseOrder
      ELSE IF r0 > 600 THEN baseOrder
      ELSE IF hits = {} THEN baseOrder
      ELSE LET k == CHOOSE h \in hits : \A g \in hits : h <= g
               follower == patterns[k][1]
           IN  <<follower>> \o FilterOut(baseOrder, follower)

\* The random draws of one selectAgents call, as the sets they are taken from:
\* r1, r2 for determineResponseCount, jitter for rankAgentsByRelevance, r0 and
\* rf for applyRelationshipBasedOrdering
SelectorDraws ==
  [r1 |-> Random, r2 |-> Random, r0 |-> Random,
   jitter |-> [AgentNames -> Random], rf |-> [1..2 -> Random]]

\* AgentSelector.selectAgents, for every combination of draws taken from the
\* sets draws: the set of its results.  The draws are independent, so each part
\* is computed over its own draws only.
selectAgentsAmong(message, availableAgents, context, draws) ==
  LET messageLower == Memo(LowerCaseTable, message, ToLowerCase(message))
      mentionedAgents ==
        Memo(getExplicitlyMentionedAgentsTable, <<messageLower, availableAgents>>,
             getExplicitlyMentionedAgents(messageLower, availableAgents))
      base == [a \in { availableAgents[i] : i \in 1..Len(availableAgents) } |->
                 AgentBaseScore(messageLower, a, context)]
      unit == ScoreUnit(messageLower)
      responseCounts == { determineResponseCount(context, messageLower, r1, r2) :
                            r1 \in draws.r1, r2 \in draws.r2 }
      rankings == { RankWith(availableAgents, base, unit, j) : j \in draws.jitter }
      selections == { Take(rankedAgents, n) : rankedAgents \in rankings, n \in responseCounts }
  IN  IF message = "" \/ availableAgents = <<>> THEN {availableAgents}
      ELSE IF /\ Memo(IsBlockchainQueryTable, messageLower, IsBlockchainQuery(messageLower))
              /\ InSeq(availableAgents, "Analyst Alex")
        THEN {<<"Analyst Alex">> \o FilterOut(availableAgents, "Analyst Alex")}
      ELSE IF mentionedAgents # <<>> THEN {mentionedAgents}
      ELSE IF context.turn > 1
        THEN { applyRelationshipBasedOrdering(selectedAgents, context, r0, rf) :
                 selectedAgents \in selections, r0 \in draws.r0, rf \in draws.rf }
      ELSE selections

\* AgentSelector.selectAgents with the draws d
selectAgents(message, availableAgents, context, d) ==
  CHOOSE order \in selectAgentsAmong(message, availableAgents, context,
                     [r1 |-> {d.r1}, r2 |-> {d.r2}, r0 |-> {d.r0},
                      jitter |-> {d.jitter}, rf |-> {d.rf}]) : TRUE

(***************************************************************************)
(* ResponseFormatter.processResponse: the clean-up pipeline.               *)
(***************************************************************************)
\* String.prototype.replace with a global regular expression: MatchLen(s, i) is
\* the length of the match starting at position i (0: none), Repl(s, i, n) what
\* replaces it.  Matches are found left to right on the original string.
\* (responseFormatter.ts 52, 65, 77, 109, 114-126, 141)
ReplaceAll(s, MatchLen(_, _), Repl(_, _, _)) ==
  LET out[i \in 1..(Len(s) + 1)] ==
        IF i > Len(s) THEN ""
        ELSE LET n == MatchLen(s, i)
             IN  IF n > 0 THEN Repl(s, i, n) \o out[i + n]
                 ELSE CharAt(s, i) \o out[i + 1]
  IN  out[1]

\* for (const x of items) s = Step(s, x)   (responseFormatter.ts 42-49, 56-67,
\* 76-78, 88-92, 108-110, 140-142)
FoldLeft(Step(_, _), s, items) ==
  LET acc[k \in 0..Len(items)] == IF k = 0 THEN s ELSE Step(acc[k - 1], items[k])
  IN  acc[Len(items)]

\* a literal matched with the 'i' flag
MatchesAtCI(s, i, t) ==
  i + Len(t) - 1 <= Len(s) /\ ToLowerCase(SubSeq(s, i, i + Len(t) - 1)) = ToLowerCase(t)

\* the first of the alternatives alts that occurs at position i, "" when none does
FirstAltAt(s, i, alts, ci) ==
  LET hit(k) == IF ci THEN MatchesAtCI(s, i, alts[k]) ELSE MatchesAt(s, i, alts[k])
      ks == { k \in 1..Len(alts) : hit(k) }
  IN  IF ks = {} THEN "" ELSE alts[CHOOSE k \in ks : \A j \in ks : k <= j]

\* the position right after the longest run of characters satisfying the class,
\* starting at position i: the quantifiers [^)]+, [^\n]*, \s* and (?: \w+)* of
\* responseFormatter.ts 52, 59-61, 96-105, 114-126
RunEnd(s, i, InClass(_)) ==
  LET stops == { j \in i..Len(s) : ~InClass(CharAt(s, j)) }
  IN  IF stops = {} THEN Len(s) + 1 ELSE CHOOSE j \in stops : \A k \in stops : j <= k

\* [^\n]
NotNewline(ch) == ch # "\n"

\* the . of a regular expression without the s flag
DotChar(ch) == ch \notin {"\n", "\r"}

aiPrefixes ==
  <<"As an AI assistant", "I'll respond as", "I'll help you with",
    "I'm responding as", "I am an AI", "As a language model">>

\* step 1, for one prefix
StripAiPrefix(processed, prefix) ==
  LET endOfPrefix == IndexOf(processed, "\n\n")
  IN  IF StartsWith(ToLowerCase(processed), ToLowerCase(prefix)) /\ endOfPrefix # -1
        THEN Trim(SubstringFrom(processed, endOfPrefix))
        ELSE processed

\* step 2: processed.replace(/\([^)]+\)/g, '')
RemoveParentheticals(processed) ==
  LET MatchLen(s, i) ==
        IF CharAt(s, i) # "(" THEN 0
        ELSE LET close == IndexOfFrom(s, ")", i)     \* 0-based index of the next ')'
             IN  IF close < 0 \/ close + 1 < i + 2 THEN 0 ELSE close + 1 - i + 1
      Repl(s, i, n) == ""
  IN  ReplaceAll(processed, MatchLen, Repl)

otherAgentNames ==
  <<"Alex", "Clara", "Sam", "Analyst Alex", "Curious Clara", "Strategic Sam">>

\* processed.replace(new RegExp(`${lead}[^\\n]*`, 'gi'), '')
RemoveToEndOfLine(processed, lead) ==
  LET MatchLen(s, i) ==
        IF MatchesAtCI(s, i, lead) THEN RunEnd(s, i + Len(lead), NotNewline) - i ELSE 0
      Repl(s, i, n) == ""
  IN  ReplaceAll(processed, MatchLen, Repl)

\* step 3, for one name.  Its first pattern, \((?:curious )?question from
\* name\)[^\n]*, needs a parenthetical span, and step 2 has left none.
RemoveFictionalQuestions(processed, name) ==
  RemoveToEndOfLine(RemoveToEndOfLine(processed, name \o " asks:"), name \o "'s question:")

selfReferenceVerbs ==
  <<"thinks", "believes", "says", "notes", "points out", "suggests", "agrees", "adds",
    "would say">>

\* step 4, for one name: name (thinks|believes|...) becomes I, with the 'gi' flags
ReplaceSelfReference(processed, name) ==
  LET MatchLen(s, i) ==
        IF MatchesAtCI(s, i, name \o " ")
          THEN LET verb == FirstAltAt(s, i + Len(name) + 1, selfReferenceVerbs, TRUE)
               IN  IF verb = "" THEN 0 ELSE Len(name) + 1 + Len(verb)
          ELSE 0
      Repl(s, i, n) == "I"
  IN  ReplaceAll(processed, MatchLen, Repl)

\* step 5, for one prefix
StripRolePrefix(processed, prefix) ==
  IF StartsWith(processed, prefix) THEN Trim(SubstringFrom(processed, Len(prefix)))
  ELSE processed

\* step 6: the physicalActions patterns \b(?:stem(?:suffixes))(?: \w+)*(?: (?:tails)),
\* the tail being absent when tails is empty
physicalActions ==
  << [stem |-> "lean",    suffixes |-> <<"s", "ed", "ing">>, tails |-> <<"forward", "back", "in", "on">>],
     [stem |-> "sit",     suffixes |-> <<"s", "ting">>,      tails |-> <<"up", "down", "back">>],
     [stem |-> "stand",   suffixes |-> <<"s", "ing">>,       tails |-> <<"up", "back">>],
     [stem |-> "nod",     suffixes |-> <<"s", "ding">>,      tails |-> <<>>],
     [stem |-> "smile",   suffixes |-> <<"s", "d", "ing">>,  tails |-> <<>>],
     [stem |-> "laugh",   suffixes |-> <<"s", "ed", "ing">>, tails |-> <<>>],
     [stem |-> "smirk",   suffixes |-> <<"s", "ed", "ing">>, tails |-> <<>>],
     [stem |-> "wink",    suffixes |-> <<"s", "ed", "ing">>, tails |-> <<>>],
     [stem |-> "gesture", suffixes |-> <<"s", "d", "ing">>,  tails |-> <<>>] >>

\* (?: \w+)* from position i: the positions after 0, 1, 2, ... whole groups, in
\* that order (a group is one space and the word after it)
WordGroupEnds(s, i) ==
  LET ends[k \in 0..Len(s)] ==
        IF k = 0 THEN i
        ELSE LET e == ends[k - 1]
             IN  IF e > 0 /\ e + 1 <= Len(s) /\ CharAt(s, e) = " " /\ IsWordChar(CharAt(s, e + 1))
                   THEN RunEnd(s, e + 1, IsWordChar)
                   ELSE 0
      count == CHOOSE k \in 0..Len(s) : ends[k] > 0 /\ (k = Len(s) \/ ends[k + 1] = 0)
  IN  [k \in 0..count |-> ends[k]]

\* the length of the match of one physicalActions pattern at position i.  The
\* groups are greedy; with a tail, the engine backs off group by group until
\* the tail follows.
PhysicalActionLen(s, i, pat) ==
  LET suffix == FirstAltAt(s, i + Len(pat.stem), pat.suffixes, TRUE)
      ends   == WordGroupEnds(s, i + Len(pat.stem) + Len(suffix))
      last   == CHOOSE k \in DOMAIN ends : \A j \in DOMAIN ends : j <= k
      TailAt(e) == IF MatchesAt(s, e, " ") THEN FirstAltAt(s, e + 1, pat.tails, TRUE) ELSE ""
      withTail == { k \in DOMAIN ends : TailAt(ends[k]) # "" }
  IN  IF ~(BoundaryAt(s, i) /\ MatchesAtCI(s, i, pat.stem) /\ suffix # "") THEN 0
      ELSE IF pat.tails = <<>> THEN ends[last] - i
      ELSE IF withTail = {} THEN 0
      ELSE LET k == CHOOSE h \in withTail : \A g \in withTail : g <= h
           IN  ends[k] + 1 + Len(TailAt(ends[k])) - i

RemovePhysicalAction(processed, pat) ==
  LET MatchLen(s, i) == PhysicalActionLen(s, i, pat)
      Repl(s, i, n) == ""
  IN  ReplaceAll(processed, MatchLen, Repl)

\* /\bin (?:his|her|their) chair\b/gi
RemoveInChair(processed) ==
  LET MatchLen(s, i) ==
        LET whose == IF MatchesAtCI(s, i, "in ")
                       THEN FirstAltAt(s, i + 3, <<"his", "her", "their">>, TRUE) ELSE ""
            n == 3 + Len(whose) + 6
        IN  IF BoundaryAt(s, i) /\ whose # "" /\ MatchesAtCI(s, i + 3 + Len(whose), " chair")
               /\ BoundaryAt(s, i + n)
              THEN n ELSE 0
      Repl(s, i, n) == ""
  IN  ReplaceAll(processed, MatchLen, Repl)

\* step 7: processed.replace(/\s{2,}/g, ' ')
CollapseSpaces(processed) ==
  LET MatchLen(s, i) ==
        IF IsSpace(CharAt(s, i)) /\ i < Len(s) /\ IsSpace(CharAt(s, i + 1))
          THEN RunEnd(s, i, IsSpace) - i ELSE 0
      Repl(s, i, n) == " "
  IN  ReplaceAll(processed, MatchLen, Repl)

\* processed.replace(/\n\s*\n\s*\n/g, '\n\n')
CollapseNewlines(processed) ==
  LET MatchLen(s, i) ==
        IF CharAt(s, i) # "\n" THEN 0
        ELSE LET a == RunEnd(s, i + 1, IsSpace)    \* right after the whitespace run
                 \* \n\s*\n\s*\n: the run from i holds three newlines or more;
                 \* the greedy match ends at its last newline
                 nls == { j \in i..(a - 1) : CharAt(s, j) = "\n" }
             IN  IF Cardinality(nls) >= 3
                   THEN (CHOOSE j \in nls : \A k \in nls : k <= j) - i + 1 ELSE 0
      Repl(s, i, n) == "\n\n"
  IN  ReplaceAll(processed, MatchLen, Repl)

\* processed.replace(/([.!?])\s*([A-Z])/g, '$1 $2')
SpaceAfterSentence(processed) ==
  LET MatchLen(s, i) ==
        IF CharAt(s, i) \notin {".", "!", "?"} THEN 0
        ELSE LET a == RunEnd(s, i + 1, IsSpace)
             IN  IF a <= Len(s) /\ IsUpper(CharAt(s, a)) THEN a - i + 1 ELSE 0
      Repl(s, i, n) == CharAt(s, i) \o " " \o CharAt(s, i + n - 1)
  IN  ReplaceAll(processed, MatchLen, Repl)

conjunctions == <<"And", "But", "So", "Because", "However", "Therefore", "Thus">>

\* the length of (And|But|So|Because|However|Therefore|Thus)\s+ at position i
ConjunctionLen(s, i) ==
  LET fits == { k \in 1..Len(conjunctions) :
                  /\ MatchesAt(s, i, conjunctions[k])
                  /\ i + Len(conjunctions[k]) <= Len(s)
                  /\ IsSpace(CharAt(s, i + Len(conjunctions[k]))) }
  IN  IF fits = {} THEN 0
      ELSE LET k == CHOOSE h \in fits : \A g \in fits : h <= g
           IN  RunEnd(s, i + Len(conjunctions[k]), IsSpace) - i

\* processed.replace(/\n\s*(And|But|So|Because|However|Therefore|Thus)\s+/g, '\n')
StripLineConjunctions(processed) ==
  LET MatchLen(s, i) ==
        IF CharAt(s, i) # "\n" THEN 0
        ELSE LET a == RunEnd(s, i + 1, IsSpace)
                 c == IF a <= Len(s) THEN ConjunctionLen(s, a) ELSE 0
             IN  IF c > 0 THEN a + c - i ELSE 0
      Repl(s, i, n) == "\n"
  IN  ReplaceAll(processed, MatchLen, Repl)

\* processed.replace(/^(And|But|So|Because|However|Therefore|Thus)\s+/, '')
StripLeadingConjunction(processed) ==
  SubstringFrom(processed, IF Len(processed) > 0 THEN ConjunctionLen(processed, 1) ELSE 0)

\* the capitalization fix of the first letter
CapitalizeFirst(processed) ==
  IF Len(processed) > 0 /\ IsLower(Head(processed))
    THEN UpperChar(Head(processed)) \o Tail(processed)
    ELSE processed

\* step 8 and the literal replacements: every occurrence of lit becomes I
ReplaceLiteral(processed, lit) ==
  LET MatchLen(s, i) == IF Len(lit) > 0 /\ MatchesAt(s, i, lit) THEN Len(lit) ELSE 0
      Repl(s, i, n) == "I"
  IN  ReplaceAll(processed, MatchLen, Repl)

\* one statement after another: the value of the first is computed before the
\* next statement takes it (the Len test never fails); the assignments
\* processed = ... of responseFormatter.ts 27-142
Then(processed, Statement(_)) == IF Len(processed) < 0 THEN processed ELSE Statement(processed)

\* processResponse up to the length adjustment (steps 1 to 8)
CleanResponse(responseText, agentName) ==
  Then(Then(Then(Then(Then(Then(Then(Then(
    Trim(responseText),
    LAMBDA p : FoldLeft(StripAiPrefix, p, aiPrefixes)),
    RemoveParentheticals),
    LAMBDA p : FoldLeft(RemoveFictionalQuestions, p, otherAgentNames)),
    LAMBDA p : ReplaceSelfReference(ReplaceSelfReference(p, agentName),
                                    FirstNameOf(agentName))),
    LAMBDA p : FoldLeft(StripRolePrefix, p,
                        <<agentName \o ":", FirstNameOf(agentName) \o ":", "Assistant:", "AI:">>)),
    LAMBDA p : RemoveInChair(FoldLeft(RemovePhysicalAction, p, physicalActions))),
    LAMBDA p : CapitalizeFirst(StripLeadingConjunction(StripLineConjunctions(
                 SpaceAfterSentence(CollapseNewlines(CollapseSpaces(p))))))),
    LAMBDA p : FoldLeft(ReplaceLiteral, p,
                        <<"I, " \o FirstNameOf(agentName) \o ",", "I, " \o agentName \o ",",
                          FirstNameOf(agentName) \o " thinks">>))

\* the fallback of processMessage (chatWorkflowManager.ts, line 386)
FallbackText == "I need more time to think about this."

\* the texts processResponse is given in the model
RawTexts == (GenTexts \ {""}) \cup {FallbackText}

CleanResponseTable ==
  Tabulated([responseText \in RawTexts, agentName \in AgentNames |->
               CleanResponse(responseText, agentName)])

(***************************************************************************)
(* ResponseFormatter.applyDynamicLengthAdjustment.  charLimit is a real     *)
(* number in the code; every test the code makes on it compares it with an *)
(* integer, so the model keeps its integer part and whether it is whole.   *)
(***************************************************************************)
\* /\b(w1|w2|...)\b/ matches somewhere in s
HasWord(s, words) ==
  \E k \in 1..Len(words) : \E i \in 1..Len(s) :
    BoundaryAt(s, i) /\ MatchesAt(s, i, words[k]) /\ BoundaryAt(s, i + Len(words[k]))

\* /\d%|\d+\.\d+|analysis|data|statistics|evidence|metrics/i.test(responseText)
IsTechnical(responseText) ==
  \/ \E i \in 1..(Len(responseText) - 1) :
       /\ IsDigit(CharAt(responseText, i))
       /\ \/ CharAt(responseText, i + 1) = "%"
          \/ /\ i + 2 <= Len(responseText)
             /\ CharAt(responseText, i + 1) = "."
             /\ IsDigit(CharAt(responseText, i + 2))
  \/ IncludesAny(ToLowerCase(responseText),
                 <<"analysis", "data", "statistics", "evidence", "metrics">>)

\* baseLimits[agentName] || 450
BaseLimit(agentName) ==
  CASE agentName = "Analyst Alex"  -> 1200
    [] agentName = "Curious Clara" -> 750
    [] agentName = "Strategic Sam" -> 850
    [] OTHER -> 450

\* wantsBrief, wantsDetailed, isQuestion, isComplexTopic (lines 184-191)
MessageCues(userMessage) ==
  LET messageLower == ToLowerCase(userMessage)
  IN  [wantsBrief |-> HasWord(messageLower,
                        <<"brief", "quick", "short", "simple", "summarize", "concise">>),
       wantsDetailed |-> HasWord(messageLower,
                        <<"detailed", "comprehensive", "thorough", "explain", "elaborate", "in depth">>),
       isQuestion |-> Includes(messageLower, "?"),
       isComplexTopic |-> HasWord(messageLower,
                        <<"analysis", "complex", "difficult", "challenging", "compare", "contrast", "debate">>)]

MessageCuesTable == Tabulated([userMessage \in TableMessages \cup {""} |-> MessageCues(userMessage)])

\* briefResponseChance, in thousandths
BriefResponseChance(signals) ==
  LET cues == Memo(MessageCuesTable, signals.userMessage, MessageCues(signals.userMessage))
      turn == IF signals.turn = 0 THEN 1 ELSE signals.turn
  IN  350 + (IF cues.wantsBrief THEN 400 ELSE IF cues.wantsDetailed THEN -250 ELSE 0)
          + (IF turn > 3 THEN 50 * Min(3, turn - 3) ELSE 0)
          - (IF cues.isQuestion THEN 100 ELSE 0)

\* charLimit before the random variation, times 400 (the factors are multiples
\* of 0.05), from the cues of the user message, isTechnical of the response and
\* shouldBeBrief
LimitFor(agentName, signals, cues, isTechnical, shouldBeBrief) ==
  BaseLimit(agentName)
  * (IF shouldBeBrief
       THEN (IF agentName = "Analyst Alex" THEN 10
             ELSE IF agentName = "Curious Clara" THEN 12 ELSE 11)
     ELSE IF cues.wantsDetailed \/ cues.isComplexTopic
       THEN (IF agentName = "Analyst Alex" /\ isTechnical THEN 28
             ELSE IF agentName = "Curious Clara" THEN 26 ELSE 25)
     ELSE IF signals.directlyAddressed THEN 24
     ELSE IF (IF signals.turn = 0 THEN 1 ELSE signals.turn) <= 2 THEN 22
     ELSE 20)
  * (IF isTechnical /\ agentName = "Analyst Alex" THEN 23
     ELSE IF isTechnical /\ agentName = "Strategic Sam" THEN 21
     ELSE 20)

\* rBrief is the draw that decides shouldBeBrief
LimitBeforeVariation(responseText, agentName, signals, rBrief) ==
  LimitFor(agentName, signals,
           Memo(MessageCuesTable, signals.userMessage, MessageCues(signals.userMessage)),
           IsTechnical(responseText),
           rBrief < BriefResponseChance(signals))

\* x400 / 400 * (0.85 + rVar / 1000 * 0.3): floor is its integer part, whole says
\* it has no fraction.  (x400 * (8500 + 3 rVar)) / 4000000 is computed in two
\* halves to stay in range.
Varied(x400, rVar) ==
  LET v    == 8500 + 3 * rVar
      hi   == (x400 \div 1000) * v
      lo   == (x400 % 1000) * v
      q    == hi + (lo \div 1000)
  IN  [floor |-> q \div 4000, whole |-> (lo % 1000 = 0) /\ (q % 4000 = 0)]

\* charLimit after charLimit *= (0.85 + Math.random() * 0.3), rVar being the draw
\* in thousandths
CharLimit(responseText, agentName, signals, rBrief, rVar) ==
  Varied(LimitBeforeVariation(responseText, agentName, signals, rBrief), rVar)

\* s.match(/.*[.!?]/): the first line that holds a sentence terminator, up to the
\* last terminator of that line; "" when there is no match
LastSentenceMatch(s) ==
  LET terms == { i \in 1..Len(s) : CharAt(s, i) \in {".", "!", "?"} }
      first == CHOOSE i \in terms : \A j \in terms : i <= j
      breaks == { i \in 1..(first - 1) : ~DotChar(CharAt(s, i)) }
      start == IF breaks = {} THEN 1 ELSE (CHOOSE i \in breaks : \A j \in breaks : j <= i) + 1
      stop  == RunEnd(s, first, DotChar) - 1
      inLine == { i \in terms : i <= stop }
  IN  IF terms = {} THEN ""
      ELSE SubSeq(s, start, CHOOSE i \in inLine : \A j \in inLine : j <= i)

RECURSIVE SplitParagraphs(_)
\* responseText.split('\n\n')
SplitParagraphs(s) ==
  LET cut == IndexOf(s, "\n\n")
  IN  IF cut < 0 THEN <<s>>
      ELSE <<Substring(s, 0, cut)>> \o SplitParagraphs(SubstringFrom(s, cut + 2))

\* approach 2: whole paragraphs up to the limit, then a partial one
RebuildByParagraphs(responseText, limit) ==
  LET paragraphs == SplitParagraphs(responseText)
      \* the state of the loop after k paragraphs: the result so far, and whether
      \* the loop has hit its break
      loop[k \in 0..Len(paragraphs)] ==
        IF k = 0 THEN [result |-> "", broke |-> FALSE]
        ELSE LET prev == loop[k - 1]
                 para == paragraphs[k]
                 remainingChars == limit.floor - Len(prev.result)
                 lastSentence == LastSentenceMatch(Substring(para, 0, remainingChars))
             IN  IF prev.broke THEN prev
                 ELSE IF Len(prev.result) + Len(para) <= limit.floor
                   THEN [result |-> prev.result \o para \o "\n\n", broke |-> FALSE]
                 ELSE IF (remainingChars > 80 \/ (remainingChars = 80 /\ ~limit.whole))
                         /\ lastSentence # ""
                   THEN [result |-> prev.result \o lastSentence \o "\n\n", broke |-> TRUE]
                 ELSE [result |-> prev.result, broke |-> TRUE]
  IN  Trim(loop[Len(paragraphs)].result)

\* the trimming of a text against a computed limit (lines 263-300)
TrimToLimit(responseText, limit) ==
  LET lastSentenceMatch == LastSentenceMatch(Substring(responseText, 0, limit.floor))
  IN  IF Len(responseText) > limit.floor
        THEN IF lastSentenceMatch # "" /\ 2 * Len(lastSentenceMatch) > limit.floor
               THEN Trim(lastSentenceMatch)
               ELSE RebuildByParagraphs(responseText, limit)
        ELSE responseText

\* ResponseFormatter.applyDynamicLengthAdjustment; signals is the context
\* argument {turn, directlyAddressed, userMessage}
applyDynamicLengthAdjustment(responseText, agentName, signals, rBrief, rVar) ==
  TrimToLimit(responseText, CharLimit(responseText, agentName, signals, rBrief, rVar))

\* ResponseFormatter.processResponse
processResponse(responseText, agentName, signals, rBrief, rVar) ==
  applyDynamicLengthAdjustment(
    Memo(CleanResponseTable, <<responseText, agentName>>, CleanResponse(responseText, agentName)),
    agentName, signals, rBrief, rVar)

(***************************************************************************)
(* ChatWorkflowManager: the parts of processMessage that compute.          *)
(***************************************************************************)
\* new Set(s.split(/\W+/).filter(w => w.length > 3)), s being lower case
LongWords(s) ==
  { SubSeq(s, i, RunEnd(s, i, IsWordChar) - 1) :
      i \in { j \in 1..Len(s) :
                /\ IsWordChar(CharAt(s, j))
                /\ (j = 1 \/ ~IsWordChar(CharAt(s, j - 1)))
                /\ RunEnd(s, j, IsWordChar) - j > 3 } }

topicChangeCues == <<"new topic", "different topic", "change subject">>

\* ChatWorkflowManager.isNewTopic; similarity < 0.15 is
\* 100 * intersection.size < 15 * (currentWords.size || 1)
isNewTopic(currentMessage, lastMessage) ==
  LET messageLower == ToLowerCase(currentMessage)
      currentWords == LongWords(messageLower)
      lastWords == LongWords(ToLowerCase(lastMessage))
  IN  IF lastMessage = "" THEN FALSE
      ELSE IF IncludesAny(messageLower, topicChangeCues) THEN TRUE
      ELSE 100 * Cardinality(currentWords \cap lastWords)
             < 15 * Max(Cardinality(currentWords), 1)

isNewTopicTable ==
  Tabulated([currentMessage \in TableMessages, lastMessage \in TableMessages \cup {""} |->
               isNewTopic(currentMessage, lastMessage)])

\* a check that would find nobody addressed
IsDirectlyAddressedNever(messageLower, agent) == FALSE

\* ChatWorkflowManager.getDirectlyAddressedAgents, the test made for one agent
IsDirectlyAddressed(messageLower, agent) ==
  LET fullName == ToLowerCase(agent)
      firstName == ToLowerCase(FirstNameOf(agent))
  IN  /\ firstName # ""
      /\ \/ StartsWith(messageLower, firstName)
         \/ Includes(messageLower, firstName \o ",")
         \/ Includes(messageLower, firstName \o ":")
         \/ Includes(messageLower, fullName \o ",")
         \/ Includes(messageLower, fullName \o ":")

\* a check that would stop at the first persona it finds addressed
getDirectlyAddressedAgentsFirstOnly(message, availableAgents) ==
  Take(SelectSeq2(availableAgents,
                  { availableAgents[i] : i \in { j \in 1..Len(availableAgents) :
                      IsDirectlyAddressed(ToLowerCase(message), availableAgents[j]) } }), 1)

getDirectlyAddressedAgents(message, availableAgents) ==
  LET messageLower == ToLowerCase(message)
  IN  SelectSeq2(availableAgents,
                 { availableAgents[i] : i \in { j \in 1..Len(availableAgents) :
                     IsDirectlyAddressed(messageLower, availableAgents[j]) } })

getDirectlyAddressedAgentsTable ==
  Tabulated([message \in TableMessages, agents \in {defaultAgentSequence} |->
               getDirectlyAddressedAgents(message, agents)])

\* ChatWorkflowManager.determineRespondingAgents: the speaking orders it can
\* return for the draws of the selector, each with the value it leaves in
\* context.directlyAddressed and with whether AgentSelector.selectAgents was
\* called for it.  runtimeKeys is Object.keys(this.runtimes).
determineRespondingAgents(message, context, runtimeKeys) ==
  LET availableAgents ==
        SelectSeq2(defaultAgentSequence, { runtimeKeys[i] : i \in 1..Len(runtimeKeys) })
      directlyAddressedAgents ==
        Memo(getDirectlyAddressedAgentsTable, <<message, availableAgents>>,
             getDirectlyAddressedAgents(message, availableAgents))
  IN  IF availableAgents = <<>>
        THEN { [agents |-> Take(runtimeKeys, 3), directlyAddressed |-> context.directlyAddressed,
                selector |-> FALSE] }
      ELSE IF directlyAddressedAgents # <<>>
        THEN { [agents |-> directlyAddressedAgents, directlyAddressed |-> TRUE,
                selector |-> FALSE] }
      ELSE { [agents |-> order, directlyAddressed |-> context.directlyAddressed,
              selector |-> TRUE] :
               order \in selectAgentsAmong(message, availableAgents, context, SelectorDraws) }

\* buildAgentPrompt, section 2: the directives of the persona
CharacterDirectives(agentName) ==
  CASE agentName = "Analyst Alex" ->
         "IMPORTANT: Start by directly answering the question with data or facts in 1-2 sentences. Then briefly add context.\n"
         \o "Your style is typically data-focused and precise, with a touch of dry humor or skepticism:\n"
         \o "- You generally prefer facts and evidence over speculation\n"
         \o "- You use examples, statistics, or data points when possible\n"
         \o "- You can be skeptical and slightly sarcastic at times\n"
         \o "- You challenge unfounded claims and assumptions\n"
         \o "- Your responses should be concise and to the point\n\n"
    [] agentName = "Curious Clara" ->
         "IMPORTANT: First answer the specific question asked, then explore creative possibilities.\n"
         \o "Your style is creative, inquisitive, and energetic:\n"
         \o "- You enjoy exploring unconventional ideas and possibilities\n"
         \o "- You naturally challenge assumptions and traditional thinking\n"
         \o "- You bring energy and enthusiasm to your responses\n"
         \o "- You see connections others might miss\n"
         \o "- Your thinking is flexible but remains focused on the actual question\n\n"
    [] agentName = "Strategic Sam" ->
         "IMPORTANT: Begin with a clear, direct answer to the question, then provide practical next steps.\n"
         \o "Your style is practical, solution-oriented, and decisive:\n"
         \o "- You focus on actionable insights and implementation\n"
         \o "- You synthesize others' ideas into coherent approaches\n"
         \o "- You're direct and decisive in your recommendations\n"
         \o "- You consider both short and long-term implications\n"
         \o "- You're pragmatic and focused on real-world application\n\n"
    [] OTHER -> ""

\* buildAgentPrompt, section 3: the other participants
ConversationSetup(agentName) ==
  "You're having a casual conversation with:\n"
  \o (IF agentName # "Analyst Alex"
        THEN "- Alex: analytical, data-focused, occasionally sarcastic\n" ELSE "")
  \o (IF agentName # "Curious Clara"
        THEN "- Clara: creative, asks thought-provoking questions, imaginative\n" ELSE "")
  \o (IF agentName # "Strategic Sam"
        THEN "- Sam: practical, solution-oriented, synthesizes ideas\n" ELSE "")
  \o "\n"

\* buildAgentPrompt, sections 4 and 5
FormatInstructions ==
  "IMPORTANT FORMAT INSTRUCTIONS: This is a text-only chat conversation. DO NOT include:\n"
  \o "- Stage directions in parentheses like (smiles), (pauses), or (thinks)\n"
  \o "- Physical actions, facial expressions, or body language\n"
  \o "- References to yourself in the third person\n"
  \o "- Made-up questions or comments from other participants\n\n"
  \o "Simply respond directly in first person as yourself in a natural conversational style.\n\n"
  \o "Guidelines for your response:\n"
  \o "- Answer the specific question directly before adding extra context\n"
  \o "- Vary your response length - sometimes brief (1-2 sentences), sometimes more detailed\n"
  \o "- You may occasionally disagree with other participants in a respectful way\n"
  \o "- Focus on adding new insights rather than repeating what's been said\n\n"

\* buildAgentPrompt, section 6: the guidance that depends on who spoke last
RelationshipGuidance(agentName, previousResponses) ==
  LET lastAgent == previousResponses[Len(previousResponses)].agent
  IN  IF previousResponses = <<>> THEN ""
      ELSE IF agentName = "Curious Clara" /\ lastAgent = "Analyst Alex"
        THEN "Challenge Alex's data-focused perspective by suggesting an unconventional angle he may have missed.\n"
      ELSE IF agentName = "Strategic Sam" /\ lastAgent = "Curious Clara"
        THEN "Ground Clara's creative ideas with practical implementation steps or limitations.\n"
      ELSE IF agentName = "Analyst Alex" /\ lastAgent = "Strategic Sam"
        THEN "Add statistical context or question assumptions in Sam's strategic approach.\n"
      ELSE ""

\* a prompt that would quote the last response only
ConversationSoFarLastOnly(previousResponses) ==
  IF previousResponses = <<>> THEN ""
  ELSE FirstNameOf(previousResponses[Len(previousResponses)].agent) \o ": "
       \o previousResponses[Len(previousResponses)].message \o "\n\n"

RECURSIVE ConversationSoFar(_)
\* previousResponses.forEach(response => prompt += `${firstName}: ${response.message}\n\n`)
ConversationSoFar(previousResponses) ==
  IF previousResponses = <<>> THEN ""
  ELSE LET response == Head(previousResponses)
           second == FirstNameOf(response.agent)
           firstName == IF second = "" THEN response.agent ELSE second
       IN  firstName \o ": " \o response.message \o "\n\n"
           \o ConversationSoFar(Tail(previousResponses))

\* buildAgentPrompt, section 7: the conversation context
ConversationContextSection(message, character, previousResponses) ==
  IF previousResponses # <<>>
    THEN "The user asked: \"" \o message \o "\"\n\n"
         \o "The conversation so far:\n"
         \o ConversationSoFar(previousResponses)
         \o "Your turn to respond as " \o character.name \o ":\n"
    ELSE "Respond to this message: \"" \o message \o "\"\n\n"

\* ChatWorkflowManager.buildAgentPrompt, for an agent that has a runtime
buildAgentPrompt(message, agentName, previousResponses, character) ==
  "You are " \o character.name \o ".\n"
  \o (IF character.system # "" THEN character.system \o "\n\n" ELSE "\n")
  \o CharacterDirectives(agentName)
  \o ConversationSetup(agentName)
  \o FormatInstructions
  \o RelationshipGuidance(agentName, previousResponses)
  \o ConversationContextSection(message, character, previousResponses)

(***************************************************************************)
(* The state of the program.                                               *)
(***************************************************************************)
VARIABLES
  runtimes,         \* ChatWorkflowManager.runtimes: agent name -> runtime
  sessionContexts,  \* ChatWorkflowManager.sessionContexts: session id -> context
  sessionTopics,    \* ChatWorkflowManager.sessionTopics: session id -> topics
  currentContext,   \* global.currentContext: the session id of the context object
                    \* it refers to, "" while it is unset
  calls,            \* the activations of processMessage: where each one stands,
                    \* and its local variables
  requests,         \* the requests of the endpoint: body, timeout timer, what
                    \* the caller has received, and where the handler stands
  historyCalls,     \* for every entry of a session's messageHistory, the call
                    \* that pushed it (kept for the statements about interleaving)
  evaluation        \* the pure function in hand when one is examined on its
                    \* own: its arguments and, once it has been applied, what
                    \* it returns for every value of its random draws

vars == <<runtimes, sessionContexts, sessionTopics, currentContext, calls, requests,
          historyCalls, evaluation>>

CallIds == 1..MaxCalls

\* the activations that requests of the endpoint take
RequestIds == 1..Min(MaxRequests, MaxCalls)

\* a loop that would allow one attempt more
ThreeAttempts == 2 + 1

\* const MAX_ATTEMPTS = 2
MAX_ATTEMPTS == 2

\* a store that would create its contexts with a turn already counted
NewContextTurnOne ==
  [turn |-> 1, messageHistory |-> <<>>, userMessage |-> "", lastUserMessage |-> "",
   lastAgent |-> "", directlyAddressed |-> FALSE]

\* getOrCreateContext: the context of a new session
NewContext ==
  [turn |-> 0, messageHistory |-> <<>>, userMessage |-> "", lastUserMessage |-> "",
   lastAgent |-> "", directlyAddressed |-> FALSE]

\* handleTopicChange: the topics of a session seen for the first time
NewTopics == [currentTopic |-> "general", previousTopics |-> <<>>]

\* the signals of a context that processResponse reads
SignalsOf(context) ==
  [turn |-> context.turn, directlyAddressed |-> context.directlyAddressed,
   userMessage |-> context.userMessage]

\* a processMessage activation that has not started.  An empty responseText
\* stands for null and for the empty string alike: the code only tests
\* !responseText.  signals holds what the last processResponse of this call
\* read from global.currentContext, selectorInvoked whether the speaking order
\* of the call came from AgentSelector.selectAgents.
IdleCall ==
  [pc |-> "idle", sessionId |-> "", message |-> "", respondingAgents |-> <<>>,
   selectorInvoked |-> FALSE,
   i |-> 0, attempts |-> 0, responseText |-> "", prompt |-> "", responses |-> <<>>,
   signals |-> SignalsOf(NewContext)]

\* no pure function is in hand
NoEvaluation == [op |-> "none"]

\* a request that has not arrived
NoRequest ==
  [handler |-> "none", message |-> "", sessionId |-> "", timer |-> "unset",
   replies |-> <<>>]

Init ==
  /\ runtimes \in RuntimeConfigs
  /\ sessionContexts = [s \in {} |-> NewContext]
  /\ sessionTopics = [s \in {} |-> NewTopics]
  /\ currentContext = ""
  /\ calls = [c \in CallIds |-> IdleCall]
  /\ requests = [c \in CallIds |-> NoRequest]
  /\ historyCalls = [s \in {} |-> <<>>]
  /\ evaluation = NoEvaluation

(***************************************************************************)
(* processMessage, segment by segment.                                     *)
(***************************************************************************)
\* a test that would let every persona of the roster through
ValidRuntimeAlways(agentName) == agentName \in DOMAIN runtimes

\* !runtime || !runtime.modelProvider || typeof generateText !== 'function'
\* is false (line 348)
ValidRuntime(agentName) ==
  agentName \in DOMAIN runtimes /\ runtimes[agentName].generateText

\* a loop that would end after its first persona
NextRunnableFirstOnly(agents, from) ==
  IF from = 1 /\ \E k \in 1..Len(agents) : ValidRuntime(agents[k])
    THEN CHOOSE k \in 1..Len(agents) :
           ValidRuntime(agents[k]) /\ \A j \in 1..(k - 1) : ~ValidRuntime(agents[j])
    ELSE 0

\* the first position from `from` on whose agent is not skipped, 0 when none
NextRunnable(agents, from) ==
  LET ok == { k \in from..Len(agents) : ValidRuntime(agents[k]) }
  IN  IF ok = {} THEN 0 ELSE CHOOSE k \in ok : \A j \in ok : k <= j

\* lines 416-421
SystemFallback ==
  [agent |-> "System",
   message |-> "Our agents were unable to process your request. Please try again."]

\* a return without the check of lines 416-421
ReturnedResponsesAsIs(responses) == responses

\* the transcript processMessage returns (lines 415-424)
ReturnedResponses(responses) == IF responses = <<>> THEN <<SystemFallback>> ELSE responses

\* lines 404-411: the entry the catch block of the for loop pushes
PersonaErrorEntry(agentName) ==
  [agent |-> agentName,
   message |-> "I'm having trouble processing your request right now."]

\* context.lastAgent as line 354 sets it
LastAgentOf(responses) ==
  IF responses = <<>> THEN "" ELSE responses[Len(responses)].agent

RECURSIVE RunLoopFrom(_, _, _)
\* The for loop from position `from` on, up to its next await or to the
\* return: agents without a usable runtime are skipped (348-351); for the
\* first one that has one, lastAgent is set (354), the prompt is built (357)
\* and generateText is called for the first time (360-371).  For a runtime
\* without character, buildAgentPrompt throws at its line 211
\* (character.name): the catch block of the for loop (404-411) pushes its
\* entry to responses and the loop goes on with the next agent.
RunLoopFrom(call, context, from) ==
  LET agents == call.respondingAgents
      k == NextRunnable(agents, from)
  IN  IF k = 0
        THEN [call |-> [call EXCEPT !.pc = "returned", !.i = Len(agents) + 1,
                          !.attempts = 0, !.responseText = "", !.prompt = "",
                          !.responses = ReturnedResponses(call.responses)],
              context |-> context]
      ELSE IF runtimes[agents[k]].character = NoCharacter
        THEN RunLoopFrom([call EXCEPT !.responses = Append(@, PersonaErrorEntry(agents[k]))],
                         [context EXCEPT !.lastAgent = LastAgentOf(call.responses)],
                         k + 1)
        ELSE [call |-> [call EXCEPT !.pc = "generating", !.i = k, !.attempts = 1,
                          !.responseText = "",
                          !.prompt = buildAgentPrompt(call.message, agents[k], call.responses,
                                                      runtimes[agents[k]].character)],
              context |-> [context EXCEPT !.lastAgent = LastAgentOf(call.responses)]]

\* a topic change that would leave no marker in the history
handleTopicChangeTopicsOnly(message, context, topics) ==
  IF context.lastUserMessage # "" /\ isNewTopic(message, context.lastUserMessage)
    THEN [context |-> context,
          topics |-> [currentTopic |-> "topic-now",
                      previousTopics |-> Append(topics.previousTopics, topics.currentTopic)],
          changed |-> FALSE]
    ELSE [context |-> context, topics |-> topics, changed |-> FALSE]

\* handleTopicChange (89-111), on the context and the topics of the session;
\* changed says whether the marker was pushed.  Date.now() is left abstract.
handleTopicChange(message, context, topics) ==
  LET changed == /\ context.lastUserMessage # ""
                 /\ Memo(isNewTopicTable, <<message, context.lastUserMessage>>,
                         isNewTopic(message, context.lastUserMessage))
  IN  IF changed
        THEN [context |-> [context EXCEPT !.messageHistory =
                             Append(@, [role |-> "system", content |-> "--- Topic change ---",
                                        name |-> ""])],
              topics |-> [currentTopic |-> "topic-now",
                          previousTopics |-> Append(topics.previousTopics, topics.currentTopic)],
              changed |-> TRUE]
        ELSE [context |-> context, topics |-> topics, changed |-> FALSE]

\* a context whose turn would stay as it is
TakeMessageKeepsTurn(context, message) ==
  [context EXCEPT !.lastUserMessage = context.userMessage,
                  !.userMessage = message,
                  !.messageHistory = Append(@, [role |-> "user", content |-> message,
                                                name |-> ""])]

\* a context that would take the user entry at the front of its history
TakeMessageAtFront(context, message) ==
  [context EXCEPT !.lastUserMessage = context.userMessage,
                  !.userMessage = message,
                  !.turn = context.turn + 1,
                  !.messageHistory = <<[role |-> "user", content |-> message,
                                        name |-> ""]>> \o @]

\* lines 325-334: the context takes the current message
TakeMessage(context, message) ==
  [context EXCEPT !.lastUserMessage = context.userMessage,
                  !.userMessage = message,
                  !.turn = context.turn + 1,
                  !.messageHistory = Append(@, [role |-> "user", content |-> message,
                                                name |-> ""])]

\* what a request of the endpoint becomes when processMessage has resolved
\* with `responses` (lines 136-181 and the catch of 183-199).  res.json on a
\* response that has been sent throws (headers already sent): the caller
\* receives nothing more, the catch block's own res.json throws again and the
\* handler's promise rejects.
\* a handler that would leave its timer running
TimerLeftRunning(timer) == timer

ClearTimeout(timer) == IF timer = "pending" THEN "cleared" ELSE timer

ConversationReply(responses) ==
  IF responses = <<>>
    THEN [status |-> 200, fields |-> {"conversation"},
          conversation |-> <<[agent |-> "System",
                              message |-> "Our agents are taking a break. Please try again."]>>]
    ELSE [status |-> 200, fields |-> {"conversation"}, conversation |-> responses]

\* a response object that would take a second reply
ResolvedSendsAgain(request, responses) ==
  [request EXCEPT !.timer = IF @ = "pending" THEN "cleared" ELSE @, !.handler = "ended",
                  !.replies = Append(@, [status |-> 200, fields |-> {"conversation"},
                                         conversation |-> responses])]

Resolved(request, responses) ==
  IF request.replies # <<>>
    THEN [request EXCEPT !.timer = ClearTimeout(@), !.handler = "rejected"]
    ELSE [request EXCEPT !.timer = ClearTimeout(@), !.handler = "ended",
                         !.replies = Append(@, ConversationReply(responses))]

\* the requests after call c has taken the step that leaves it as `call`: when
\* the call has returned to the handler of a request, the handler goes on
RequestsAfter(c, call) ==
  IF call.pc = "returned" /\ requests[c].handler = "running"
    THEN [requests EXCEPT ![c] = Resolved(@, call.responses)]
    ELSE requests

\* processMessage from its first line to its first await (or to its return,
\* when no agent is to be asked): lines 315-371.  `handler` is the state the
\* request of this call is left in: "none" for a direct call.
StartProcessMessage(c, message, sessionId, request) ==
  LET context0 == IF sessionId \in DOMAIN sessionContexts
                    THEN sessionContexts[sessionId] ELSE NewContext
      topics0 == IF sessionId \in DOMAIN sessionTopics
                   THEN sessionTopics[sessionId] ELSE NewTopics
      history0 == IF sessionId \in DOMAIN historyCalls THEN historyCalls[sessionId] ELSE <<>>
      topic == handleTopicChange(message, context0, topics0)
      context1 == TakeMessage(topic.context, message)
  IN  \E responding \in determineRespondingAgents(message, context1,
                                                   SelectSeq2(defaultAgentSequence, DOMAIN runtimes)) :
        LET context2 == [context1 EXCEPT !.directlyAddressed = responding.directlyAddressed]
            call == [IdleCall EXCEPT !.sessionId = sessionId, !.message = message,
                                     !.respondingAgents = responding.agents,
                                     !.selectorInvoked = responding.selector]
            next == RunLoopFrom(call, context2, 1)
        IN  /\ currentContext' = sessionId
            /\ sessionTopics' = (sessionId :> topic.topics) @@ sessionTopics
            /\ sessionContexts' = (sessionId :> next.context) @@ sessionContexts
            /\ historyCalls' =
                 (sessionId :> (history0 \o (IF topic.changed THEN <<c, c>> ELSE <<c>>)))
                 @@ historyCalls
            /\ calls' = [calls EXCEPT ![c] = next.call]
            /\ requests' = [requests EXCEPT ![c] =
                              IF next.call.pc = "returned" /\ request.handler = "running"
                                THEN Resolved(request, next.call.responses)
                                ELSE request]
            /\ UNCHANGED <<runtimes, evaluation>>

\* activation c has been used, by a direct call or by a request; activations
\* are taken in the order of their numbers
Arrived(c) == calls[c].pc # "idle" \/ requests[c].handler # "none"

\* a caller of the manager calls processMessage(message, sessionId)
ProcessMessage(c, message, sessionId) ==
  /\ calls[c].pc = "idle"
  /\ requests[c].handler = "none"
  /\ IF c = 1 THEN TRUE ELSE Arrived(c - 1)
  /\ StartProcessMessage(c, message, sessionId, requests[c])

\* what processResponse can return, over all values of its two Math.random()
\* draws
processResponseAmong(responseText, agentName, signals) ==
  { processResponse(responseText, agentName, signals, rBrief, rVar) :
      rBrief \in Random, rVar \in Random }

processResponseTable ==
  Tabulated([responseText \in RawTexts, agentName \in AgentNames,
             turn \in 0..Max(MaxCalls, MaxTurns),
             directlyAddressed \in BOOLEAN, userMessage \in TableMessages |->
               processResponseAmong(responseText, agentName,
                 [turn |-> turn, directlyAddressed |-> directlyAddressed,
                  userMessage |-> userMessage])])

\* lines 383-390: the fallback sentence for a responseText that is empty, then
\* processResponse with the signals of global.currentContext
ProcessedTexts(call) ==
  LET agentName == call.respondingAgents[call.i]
      signals == SignalsOf(sessionContexts[currentContext])
      raw == IF call.responseText = "" THEN FallbackText ELSE call.responseText
  IN  Memo(processResponseTable,
           <<raw, agentName, signals.turn, signals.directlyAddressed, signals.userMessage>>,
           processResponseAmong(raw, agentName, signals))

\* lines 392-403 for the agent in hand, then the loop goes on: the push to
\* responses and to the history of the call's own context.  `call` is the
\* activation as the while loop left it, responseText what processResponse
\* returned.
FinishAgent(c, call, responseText) ==
  LET agentName == call.respondingAgents[call.i]
      pushed == [call EXCEPT !.signals = SignalsOf(sessionContexts[currentContext]),
                             !.responses = Append(@, [agent |-> runtimes[agentName].character.name,
                                                      message |-> responseText])]
      context == [sessionContexts[call.sessionId] EXCEPT !.messageHistory =
                    Append(@, [role |-> "assistant", content |-> responseText,
                               name |-> agentName])]
      next == RunLoopFrom(pushed, context, call.i + 1)
  IN  /\ calls' = [calls EXCEPT ![c] = next.call]
      /\ sessionContexts' = [sessionContexts EXCEPT ![call.sessionId] = next.context]
      /\ historyCalls' = [historyCalls EXCEPT ![call.sessionId] = Append(@, c)]
      /\ requests' = RequestsAfter(c, next.call)
      /\ UNCHANGED <<runtimes, evaluation, sessionTopics, currentContext>>

\* !responseText || responseText.trim() === '' (line 373)
IsEmptyResponse(responseText) == responseText = "" \/ Trim(responseText) = ""

\* generateText resolves with `text` (line 371): an empty response is followed
\* by the pause of 1000 ms (373-376); any other ends the while loop
GenerateTextResolves(c, text) ==
  /\ calls[c].pc = "generating"
  /\ IF IsEmptyResponse(text)
       THEN /\ calls' = [calls EXCEPT ![c].responseText = text, ![c].pc = "pauseEmpty"]
            /\ UNCHANGED <<runtimes, evaluation, sessionContexts, sessionTopics, currentContext,
                           requests, historyCalls>>
       ELSE LET call == [calls[c] EXCEPT !.responseText = text]
            IN  \E responseText \in ProcessedTexts(call) : FinishAgent(c, call, responseText)

\* generateText throws or rejects (377-380): the pause of 2000 ms follows
GenerateTextRejects(c) ==
  /\ calls[c].pc = "generating"
  /\ calls' = [calls EXCEPT ![c].pc = "pauseError"]
  /\ UNCHANGED <<runtimes, evaluation, sessionContexts, sessionTopics, currentContext,
                 requests, historyCalls>>

\* a pause has elapsed: the while condition of line 364 is tested again
PauseElapsed(c) ==
  /\ calls[c].pc \in {"pauseEmpty", "pauseError"}
  /\ IF calls[c].responseText = "" /\ calls[c].attempts < MAX_ATTEMPTS
       THEN /\ calls' = [calls EXCEPT ![c].attempts = @ + 1, ![c].pc = "generating"]
            /\ UNCHANGED <<runtimes, evaluation, sessionContexts, sessionTopics, currentContext,
                           requests, historyCalls>>
       ELSE \E responseText \in ProcessedTexts(calls[c]) :
              FinishAgent(c, calls[c], responseText)

(***************************************************************************)
(* The endpoint POST /multi-agent-chat.                                    *)
(***************************************************************************)
\* what a body may hold as its message: "" stands for every value that
\* !message rejects (absent, null, empty)
RequestMessages == Messages \cup {""}

\* lines 112-115
BadRequestReply == [status |-> 400, fields |-> {"error", "details"}, conversation |-> <<>>]

\* lines 99-102
TimeoutReply ==
  [status |-> 504, fields |-> {"error", "conversation"},
   conversation |-> <<[agent |-> "System",
                       message |-> "The request took too long to process. Please try again later."]>>]

\* the handler from its first line to its first await or to its return
\* (lines 79-135): the timer is set, a body without message is answered at
\* once, any other is handed to processMessage
HandleRequest(c, message, sessionId) ==
  /\ calls[c].pc = "idle"
  /\ requests[c].handler = "none"
  /\ IF c = 1 THEN TRUE ELSE Arrived(c - 1)
  /\ IF message = ""
       THEN /\ requests' = [requests EXCEPT ![c] =
                             [handler |-> "ended", message |-> message, sessionId |-> sessionId,
                              timer |-> ClearTimeout("pending"),
                              replies |-> <<BadRequestReply>>]]
            /\ UNCHANGED <<runtimes, evaluation, sessionContexts, sessionTopics, currentContext,
                           calls, historyCalls>>
       ELSE StartProcessMessage(c, message, sessionId,
                                [handler |-> "running", message |-> message,
                                 sessionId |-> sessionId, timer |-> "pending",
                                 replies |-> <<>>])

\* a timer callback that would send nothing
TimeoutFireSilent(c) ==
  /\ requests[c].timer = "pending"
  /\ requests' = [requests EXCEPT ![c].timer = "fired"]
  /\ UNCHANGED <<runtimes, evaluation, sessionContexts, sessionTopics, currentContext, calls,
                 historyCalls>>

\* the callback of setTimeout (lines 96-103), 45 seconds after the request
TimeoutFire(c) ==
  /\ requests[c].timer = "pending"
  /\ requests' = [requests EXCEPT ![c].timer = "fired",
                                  ![c].replies = Append(@, TimeoutReply)]
  /\ UNCHANGED <<runtimes, evaluation, sessionContexts, sessionTopics, currentContext, calls,
                 historyCalls>>

\* callers of the manager, with no endpoint before it
Next ==
  \/ \E c \in CallIds, message \in Messages, sessionId \in Sessions :
       ProcessMessage(c, message, sessionId)
  \/ \E c \in CallIds, text \in GenTexts : GenerateTextResolves(c, text)
  \/ \E c \in CallIds : GenerateTextRejects(c)
  \/ \E c \in CallIds : PauseElapsed(c)

Spec == Init /\ [][Next]_vars

\* a caller that awaits the transcript of a turn before it sends the next
\* message
NextMessage(c, message, sessionId) ==
  /\ IF c = 1 THEN TRUE ELSE calls[c - 1].pc = "returned"
  /\ ProcessMessage(c, message, sessionId)

\* one conversation, turn after turn, over the messages that decide the
\* speaking order
OrderNext ==
  \/ \E c \in CallIds, message \in OrderMessages : NextMessage(c, message, "default")
  \/ \E c \in CallIds, text \in GenTexts : GenerateTextResolves(c, text)
  \/ \E c \in CallIds : GenerateTextRejects(c)
  \/ \E c \in CallIds : PauseElapsed(c)

OrderSpec == Init /\ [][OrderNext]_vars

\* the manager constructed by a caller of its own, with a runtime of
\* Strategic Sam that has no character
ErrorPathInit ==
  /\ runtimes = [a \in AgentNames |->
                  IF a = "Strategic Sam" THEN RuntimeNoCharacter(a) ELSE RuntimeOk(a)]
  /\ sessionContexts = [s \in {} |-> NewContext]
  /\ sessionTopics = [s \in {} |-> NewTopics]
  /\ currentContext = ""
  /\ calls = [c \in CallIds |-> IdleCall]
  /\ requests = [c \in CallIds |-> NoRequest]
  /\ historyCalls = [s \in {} |-> <<>>]
  /\ evaluation = NoEvaluation

\* one conversation with that manager, turn after turn
ErrorPathSpec == ErrorPathInit /\ [][OrderNext]_vars

\* the turns of a conversation held turn after turn
TurnIds == 1..MaxTurns

TurnsInit ==
  /\ runtimes \in RuntimeConfigs
  /\ sessionContexts = [s \in {} |-> NewContext]
  /\ sessionTopics = [s \in {} |-> NewTopics]
  /\ currentContext = ""
  /\ calls = [c \in TurnIds |-> IdleCall]
  /\ requests = [c \in TurnIds |-> NoRequest]
  /\ historyCalls = [s \in {} |-> <<>>]
  /\ evaluation = NoEvaluation

\* one conversation of up to MaxTurns turns on the default session
TurnsNext ==
  \/ \E c \in TurnIds, message \in Messages : NextMessage(c, message, "default")
  \/ \E c \in TurnIds, text \in GenTexts : GenerateTextResolves(c, text)
  \/ \E c \in TurnIds : GenerateTextRejects(c)
  \/ \E c \in TurnIds : PauseElapsed(c)

TurnsSpec == TurnsInit /\ [][TurnsNext]_vars

\* requests to the endpoint
EndpointNext ==
  \/ \E c \in RequestIds, message \in RequestMessages, sessionId \in Sessions :
       HandleRequest(c, message, sessionId)
  \/ \E c \in RequestIds : TimeoutFire(c)
  \/ \E c \in RequestIds, text \in GenTexts : GenerateTextResolves(c, text)
  \/ \E c \in RequestIds : GenerateTextRejects(c)
  \/ \E c \in RequestIds : PauseElapsed(c)

EndpointSpec == Init /\ [][EndpointNext]_vars

\* the timer of every request fires unless it is cleared; nothing is assumed
\* of the generation capability, which may never return
FairEndpointSpec == EndpointSpec /\ \A c \in RequestIds : WF_vars(TimeoutFire(c))

(***************************************************************************)
(* AgentSelector.selectAgents taken on its own: the initial state draws    *)
(* its arguments, one step applies it.                                     *)
(***************************************************************************)
\* the rosters handed to it: defaultAgentSequence filtered by the runtimes
\* there are (chatWorkflowManager.ts 124-126), here all of them or all but
\* Analyst Alex
SelectorRosters == {defaultAgentSequence, <<"Curious Clara", "Strategic Sam">>}

\* an assistant entry of the history, as processMessage pushes it
AssistantEntry(agent) == [role |-> "assistant", content |-> "ok.", name |-> agent]

\* the ends of the histories: nobody, one persona or two personas have spoken
SelectorHistories ==
  {<<>>} \cup { <<AssistantEntry(a)>> : a \in AgentNames }
         \cup { <<AssistantEntry(p[1]), AssistantEntry(p[2])>> :
                  p \in { q \in AgentNames \X AgentNames : q[1] # q[2] } }

\* the contexts handed to it
SelectorContexts ==
  { [NewContext EXCEPT !.turn = t, !.lastAgent = l, !.messageHistory = h] :
      t \in 1..MaxSelectorTurn, l \in AgentNames \cup {""}, h \in SelectorHistories }

SelectorInit ==
  /\ runtimes = [a \in AgentNames |-> RuntimeOk(a)]
  /\ sessionContexts = [s \in {} |-> NewContext]
  /\ sessionTopics = [s \in {} |-> NewTopics]
  /\ currentContext = ""
  /\ calls = [c \in CallIds |-> IdleCall]
  /\ requests = [c \in CallIds |-> NoRequest]
  /\ historyCalls = [s \in {} |-> <<>>]
  /\ evaluation \in
       { [op |-> "selectAgents", message |-> m, availableAgents |-> r, context |-> c,
          applied |-> FALSE, responseCounts |-> {}, rankings |-> {}, reorderings |-> {},
          results |-> {}, respondingAgents |-> {}] :
           m \in SelectorMessages, r \in SelectorRosters, c \in SelectorContexts }

\* rankedAgents.slice(0, responseCount) for every ranking and count given
SelectionsOf(rankings, responseCounts) ==
  { Take(rankedAgents, n) : rankedAgents \in rankings, n \in responseCounts }

\* applyRelationshipBasedOrdering on every selection given, for every value of
\* its draws: the pairs of what it is handed and what it returns
ReorderingsOf(selections, context) ==
  { <<baseOrder, applyRelationshipBasedOrdering(baseOrder, context, r0, rf)>> :
      baseOrder \in selections, r0 \in Random, rf \in [1..2 -> Random] }

\* selectAgents(message, availableAgents, context) is applied: what
\* determineResponseCount and rankAgentsByRelevance return for this message
\* and context, what applyRelationshipBasedOrdering makes of the selections,
\* what selectAgents returns and what determineRespondingAgents returns with
\* these personas as the keys of the runtimes, for every value of the draws
ApplySelectAgents ==
  /\ evaluation.op = "selectAgents"
  /\ ~evaluation.applied
  /\ evaluation' =
       [evaluation EXCEPT
          !.applied = TRUE,
          !.responseCounts =
             { determineResponseCount(evaluation.context,
                                      LowerCaseTable[evaluation.message], r1, r2) :
                 r1 \in Random, r2 \in Random },
          !.rankings =
             { rankAgentsByRelevance(LowerCaseTable[evaluation.message],
                                     evaluation.availableAgents, evaluation.context, j) :
                 j \in [AgentNames -> Random] },
          !.reorderings =
             ReorderingsOf(
               SelectionsOf(
                 { rankAgentsByRelevance(LowerCaseTable[evaluation.message],
                                         evaluation.availableAgents, evaluation.context, j) :
                     j \in [AgentNames -> Random] },
                 { determineResponseCount(evaluation.context,
                                          LowerCaseTable[evaluation.message], r1, r2) :
                     r1 \in Random, r2 \in Random }),
               evaluation.context),
          !.results = selectAgentsAmong(evaluation.message, evaluation.availableAgents,
                                        evaluation.context, SelectorDraws),
          !.respondingAgents =
             { r.agents : r \in determineRespondingAgents(evaluation.message,
                                   evaluation.context, evaluation.availableAgents) }]
  /\ UNCHANGED <<runtimes, sessionContexts, sessionTopics, currentContext, calls, requests,
                 historyCalls>>

SelectorNext == ApplySelectAgents

SelectorSpec == SelectorInit /\ [][SelectorNext]_vars

(***************************************************************************)
(* ResponseFormatter taken on its own: processResponse on short texts,     *)
(* applied once and once more to what it returned, and                     *)
(* applyDynamicLengthAdjustment on cleaned texts three times as long as    *)
(* the base limit of the persona.                                          *)
(***************************************************************************)
RECURSIVE Repeat(_, _)
\* String.prototype.repeat
Repeat(s, n) ==
  IF n = 0 THEN ""
  ELSE IF n % 2 = 1 THEN s \o Repeat(s, n - 1)
  ELSE Repeat(s, n \div 2) \o Repeat(s, n \div 2)

\* generated texts: the stage direction of the specification's example, a
\* closing bracket on its own, a conjunction before and after a role label,
\* a role label of the persona before a conjunction, and a plain text
NormalizerTexts ==
  {"(smiles) I think this is important.", "see :) now", "And AI: hi", "AI: And hi",
   "Alex: So it is", "Fine.Thanks"}

\* a cleaned text of length 3 * limit with a sentence end every ten characters
LongSentences(limit) == Repeat("Abcdefgh. ", (3 * limit) \div 10 - 1) \o "Abcdefghi."

\* a cleaned text of length 3 * limit with two sentences: the first one ends
\* at a quarter of the limit beyond the limit, the second at the end
FarBoundary(limit) ==
  "A" \o Repeat("a", (5 * limit) \div 4 - 2) \o ". B"
      \o Repeat("b", 3 * limit - (5 * limit) \div 4 - 3) \o "."

\* the cleaned texts handed to the length adjustment of a persona
GovernorTexts(agentName) ==
  {"Fine.", LongSentences(BaseLimit(agentName)), FarBoundary(BaseLimit(agentName))}

\* what processResponse reads from global.currentContext: every turn of a
\* conversation (0: no context is set), addressed or not
FormatterSignals ==
  [turn : 0..MaxTurns, directlyAddressed : BOOLEAN, userMessage : {"plan idea"}]

\* the same for the short texts, which stay under every limit: a first and
\* a later turn
NormalizerSignals == { sig \in FormatterSignals : sig.turn \in {1, MaxTurns} /\ ~sig.directlyAddressed }

FormatterInit ==
  /\ runtimes = [a \in AgentNames |-> RuntimeOk(a)]
  /\ sessionContexts = [s \in {} |-> NewContext]
  /\ sessionTopics = [s \in {} |-> NewTopics]
  /\ currentContext = ""
  /\ calls = [c \in CallIds |-> IdleCall]
  /\ requests = [c \in CallIds |-> NoRequest]
  /\ historyCalls = [s \in {} |-> <<>>]
  /\ \E a \in AgentNames :
       \/ \E t \in NormalizerTexts, sig \in NormalizerSignals :
            evaluation = [op |-> "processResponse", responseText |-> t, agentName |-> a,
                          signals |-> sig, applied |-> 0, once |-> {}, twice |-> {}]
       \/ \E t \in GovernorTexts(a), sig \in FormatterSignals :
            evaluation = [op |-> "applyDynamicLengthAdjustment", responseText |-> t,
                          agentName |-> a, signals |-> sig, applied |-> 0, cuts |-> {}]

\* processResponse(responseText, agentName) is applied: what it returns, for
\* every value of the draws
ApplyProcessResponse ==
  /\ evaluation.op = "processResponse"
  /\ evaluation.applied = 0
  /\ evaluation' =
       [evaluation EXCEPT
          !.applied = 1,
          !.once = processResponseAmong(evaluation.responseText, evaluation.agentName,
                                        evaluation.signals)]
  /\ UNCHANGED <<runtimes, sessionContexts, sessionTopics, currentContext, calls, requests,
                 historyCalls>>

\* processResponse is applied to what it returned
ApplyProcessResponseAgain ==
  /\ evaluation.op = "processResponse"
  /\ evaluation.applied = 1
  /\ evaluation' =
       [evaluation EXCEPT
          !.applied = 2,
          !.twice = UNION { processResponseAmong(t, evaluation.agentName, evaluation.signals) :
                              t \in evaluation.once }]
  /\ UNCHANGED <<runtimes, sessionContexts, sessionTopics, currentContext, calls, requests,
                 historyCalls>>

\* applyDynamicLengthAdjustment(responseText, agentName, context) is applied:
\* for every value of the two draws, the limit it computes (the integer
\* part of charLimit) and the text it returns
ApplyLengthAdjustment ==
  /\ evaluation.op = "applyDynamicLengthAdjustment"
  /\ evaluation.applied = 0
  /\ evaluation' =
       [evaluation EXCEPT
          !.applied = 1,
          !.cuts =
             { [charLimit |-> CharLimit(evaluation.responseText, evaluation.agentName,
                                        evaluation.signals, rBrief, rVar).floor,
                text |-> applyDynamicLengthAdjustment(evaluation.responseText,
                           evaluation.agentName, evaluation.signals, rBrief, rVar)] :
                 rBrief \in Random, rVar \in Random }]
  /\ UNCHANGED <<runtimes, sessionContexts, sessionTopics, currentContext, calls, requests,
                 historyCalls>>

FormatterNext ==
  \/ ApplyProcessResponse
  \/ ApplyProcessResponseAgain
  \/ ApplyLengthAdjustment

FormatterSpec == FormatterInit /\ [][FormatterNext]_vars

(***************************************************************************)
(* What the statements below speak of.                                     *)
(***************************************************************************)
\* the j-th smallest element of a set of numbers
Nth(S, j) == CHOOSE k \in S : Cardinality({ m \in S : m <= k }) = j

Last(q) == q[Len(q)]

EndsWith(s, t) == Len(t) <= Len(s) /\ SubSeq(s, Len(s) - Len(t) + 1, Len(s)) = t

\* the positions of the session history that hold assistant entries of call c
OwnAssistantPositions(c) ==
  LET s == calls[c].sessionId
  IN  { k \in 1..Len(historyCalls[s]) :
          historyCalls[s][k] = c /\ sessionContexts[s].messageHistory[k].role = "assistant" }

\* the assistant entries call c has pushed to the history, in order
OwnAssistantEntries(c) ==
  [j \in 1..Cardinality(OwnAssistantPositions(c)) |->
     sessionContexts[calls[c].sessionId].messageHistory[Nth(OwnAssistantPositions(c), j)]]

\* the positions of the speaking order whose persona can generate, before `i`
ProcessedPositions(c) ==
  { k \in 1..Len(calls[c].respondingAgents) :
      k < calls[c].i /\ runtimes[calls[c].respondingAgents[k]].generateText }

InLoop(c) == calls[c].pc \in {"generating", "pauseEmpty", "pauseError"}

ShortName(agentName) ==
  CASE agentName = "Analyst Alex"  -> "Alex"
    [] agentName = "Curious Clara" -> "Clara"
    [] agentName = "Strategic Sam" -> "Sam"

\* "<first name>: <text>" for the entries of a history, one after the other
Dialogue(entries) ==
  LET upTo[j \in 0..Len(entries)] ==
        IF j = 0 THEN ""
        ELSE upTo[j - 1] \o ShortName(entries[j].name) \o ": " \o entries[j].content \o "\n\n"
  IN  upTo[Len(entries)]

(***************************************************************************)
(* processMessage: transcript, retries, order.                             *)
(***************************************************************************)
\* C1: a processMessage call that has returned has a transcript of at least
\* one entry: one entry per assistant entry the call pushed to the history
\* and, when it pushed none, exactly the one System apology.
C1_TranscriptNeverEmpty ==
  \A c \in CallIds :
    calls[c].pc = "returned" =>
      /\ Len(calls[c].responses) >= 1
      /\ IF OwnAssistantPositions(c) = {}
           THEN calls[c].responses =
                  <<[agent |-> "System",
                     message |-> "Our agents were unable to process your request. Please try again."]>>
           ELSE /\ Len(calls[c].responses) = Cardinality(OwnAssistantPositions(c))
                /\ \A j \in 1..Len(calls[c].responses) : calls[c].responses[j].agent # "System"

\* a call has returned the System apology: every selected persona was skipped
C1_Witness ==
  \E c \in CallIds :
    /\ calls[c].pc = "returned"
    /\ calls[c].respondingAgents # <<>>
    /\ OwnAssistantPositions(c) = {}
    /\ Len(calls[c].responses) = 1 /\ calls[c].responses[1].agent = "System"

\* a call has returned a transcript whose every entry is the fallback sentence
\* of a persona whose attempts all failed
C1_WitnessAllFailed ==
  \E c \in CallIds :
    /\ calls[c].pc = "returned"
    /\ Len(calls[c].responses) >= 2
    /\ \A j \in 1..Len(calls[c].responses) : calls[c].responses[j].message = FallbackText

\* C2: whatever the attempts of the earlier personas gave, the transcript
\* holds one entry for every persona of the speaking order that can generate
\* and whose position the loop has passed, in the order of the positions; a
\* call that has returned has passed every position.
C2_FailureDoesNotStopTheTurn ==
  \A c \in CallIds :
    /\ calls[c].pc = "returned" => calls[c].i = Len(calls[c].respondingAgents) + 1
    /\ (calls[c].pc # "idle" /\ ProcessedPositions(c) # {}) =>
         /\ Len(calls[c].responses) = Cardinality(ProcessedPositions(c))
         /\ \A j \in 1..Len(calls[c].responses) :
              calls[c].responses[j].agent = calls[c].respondingAgents[Nth(ProcessedPositions(c), j)]

\* the attempts of one persona all failed and a later persona has its entry
C2_Witness ==
  \E c \in CallIds :
    /\ calls[c].pc = "returned"
    /\ Len(calls[c].responses) >= 2
    /\ calls[c].responses[1].message = FallbackText
    /\ Last(calls[c].responses).message # FallbackText

\* C3: while a persona is being asked, generateText has been called for it at
\* least once and at most 2 times; a call of generateText is the first one for
\* its position, or follows an attempt that left no text; an entry is pushed
\* only after at least one call.
C3_AttemptsBounded ==
  [][\A c \in CallIds :
       /\ InLoop(c)' => calls[c].attempts' \in 1..2
       /\ (calls[c].pc' = "generating" /\ calls[c]' # calls[c]) =>
            \/ calls[c].attempts' = 1 /\ (calls[c].pc = "idle" \/ calls[c].i' > calls[c].i)
            \/ /\ calls[c].i' = calls[c].i
               /\ calls[c].attempts' = calls[c].attempts + 1
               /\ calls[c].responseText = ""
       /\ (calls[c].pc # "idle" /\ calls[c].i' > calls[c].i) =>
            InLoop(c) /\ calls[c].attempts >= 1]_vars

\* a second attempt is under way
C3_Witness ==
  \E c \in CallIds : calls[c].pc = "generating" /\ calls[c].attempts = 2

\* C4 (as the specification states it): after an attempt that was empty,
\* blank or thrown, generateText is called again while attempts remain, and a
\* persona whose attempts all failed gets the fallback sentence as its text.
C4_FailedAttemptsRetriedThenFallback ==
  [][\A c \in CallIds :
       (calls[c].pc \in {"pauseEmpty", "pauseError"} /\ calls[c]' # calls[c]) =>
         IF calls[c].attempts < 2
           THEN /\ calls[c].pc' = "generating"
                /\ calls[c].i' = calls[c].i
                /\ calls[c].attempts' = calls[c].attempts + 1
           ELSE /\ Len(calls[c].responses') = Len(calls[c].responses) + 1
                /\ calls[c].responses'[Len(calls[c].responses) + 1].message = FallbackText]_vars

\* C5: while the persona at position i is being asked, the transcript holds
\* the normalized texts of all personas before i that can generate, which are
\* the assistant entries the call has pushed to the history; and when there is
\* one at least, the prompt in use ends with these texts in speaking order,
\* followed by the invitation to the persona at position i.
C5_SequentialWithEarlierTexts ==
  \A c \in CallIds :
    InLoop(c) =>
      /\ Len(calls[c].responses) = Cardinality(ProcessedPositions(c))
      /\ Len(OwnAssistantEntries(c)) = Len(calls[c].responses)
      /\ \A j \in 1..Len(calls[c].responses) :
           /\ OwnAssistantEntries(c)[j].content = calls[c].responses[j].message
           /\ OwnAssistantEntries(c)[j].name =
                calls[c].respondingAgents[Nth(ProcessedPositions(c), j)]
      /\ calls[c].responses # <<>> =>
           EndsWith(calls[c].prompt,
                    "The conversation so far:\n" \o Dialogue(OwnAssistantEntries(c))
                    \o "Your turn to respond as " \o calls[c].respondingAgents[calls[c].i]
                    \o ":\n")

\* the third persona of a speaking order is being asked
C5_Witness ==
  \E c \in CallIds :
    /\ calls[c].pc = "generating"
    /\ Len(calls[c].responses) = 2
    /\ calls[c].responses[1].message # calls[c].responses[2].message

(***************************************************************************)
(* Concurrent calls.                                                       *)
(***************************************************************************)
\* C6 (as the specification states it): the history of a session never holds
\* the user entry of one call between the user entry of another call and an
\* assistant entry of that other call.
C6_NoInterleavedHistory ==
  \A s \in DOMAIN sessionContexts :
    LET h == sessionContexts[s].messageHistory
    IN  \A i, j, k \in 1..Len(h) :
          ~ /\ i < j /\ j < k
            /\ h[i].role = "user" /\ h[j].role = "user" /\ h[k].role = "assistant"
            /\ historyCalls[s][i] = historyCalls[s][k]
            /\ historyCalls[s][j] # historyCalls[s][i]

\* C7 (as the specification states it): for a call that is alone on its
\* session, the signals the normalizer read for its last response are those of
\* the context of its session.
C7_SignalsOfOwnSession ==
  \A c \in CallIds :
    ( /\ calls[c].pc # "idle"
      /\ OwnAssistantPositions(c) # {}
      /\ \A d \in CallIds \ {c} : calls[d].pc = "idle" \/ calls[d].sessionId # calls[c].sessionId )
    => calls[c].signals = SignalsOf(sessionContexts[calls[c].sessionId])

(***************************************************************************)
(* The endpoint: time budget, replies, rejected requests.                  *)
(***************************************************************************)
\* C8: a request whose timer has fired has received one reply, the one of the
\* timer, whose conversation is exactly one System entry; whatever the turn
\* computes afterwards, that reply stays the only one.
C8_TimeoutReplyOnly ==
  \A c \in CallIds :
    requests[c].timer = "fired" =>
      /\ Len(requests[c].replies) = 1
      /\ requests[c].replies[1].status = 504
      /\ Len(requests[c].replies[1].conversation) = 1
      /\ requests[c].replies[1].conversation[1].agent = "System"
      /\ requests[c].replies[1].conversation[1].message =
           "The request took too long to process. Please try again later."

\* the timer has fired and the turn has gone on to return a transcript of
\* persona entries
C8_Witness ==
  \E c \in CallIds :
    /\ requests[c].timer = "fired"
    /\ calls[c].pc = "returned"
    /\ calls[c].responses # <<>>
    /\ calls[c].responses[1].agent # "System"

C10_MissingMessageRejected ==
  [][\A c \in CallIds :
       /\ (requests[c].handler = "none" /\ requests[c].handler' # "none"
             /\ requests[c].message' = "") =>
            /\ sessionContexts' = sessionContexts
            /\ sessionTopics' = sessionTopics
            /\ currentContext' = currentContext
            /\ calls' = calls
            /\ Len(requests[c].replies') = 1
            /\ requests[c].replies'[1].status = 400
            /\ "error" \in requests[c].replies'[1].fields
            /\ requests[c].timer' = "cleared"
       /\ (requests[c].handler # "none" /\ requests[c].message = "") =>
            /\ requests[c]' = requests[c]
            /\ calls[c]' = calls[c] /\ calls[c].pc = "idle"]_vars

\* a request without message has been answered
C10_Witness ==
  \E c \in CallIds :
    /\ requests[c].handler = "ended"
    /\ requests[c].message = ""
    /\ requests[c].replies # <<>>
    /\ calls[c].pc = "idle"

\* C11 (as the specification states it): every reply the endpoint has sent
\* carries a conversation of at least one entry, and the conversation of an
\* error reply is a single entry authored by System.
C11_EveryReplyCarriesConversation ==
  \A c \in CallIds :
    \A k \in 1..Len(requests[c].replies) :
      LET reply == requests[c].replies[k]
      IN  /\ "conversation" \in reply.fields
          /\ Len(reply.conversation) >= 1
          /\ reply.status # 200 =>
               /\ Len(reply.conversation) = 1
               /\ reply.conversation[1].agent = "System"

(***************************************************************************)
(* Skipped personas, the speaking order, the context across turns.         *)
(***************************************************************************)
\* the positions of the speaking order of call c whose persona has no usable
\* generation capability
SkippedPositions(c) ==
  { k \in 1..Len(calls[c].respondingAgents) :
      ~runtimes[calls[c].respondingAgents[k]].generateText }

\* C12: a persona of the speaking order without a usable generation
\* capability is never asked, has no entry in the transcript of the call and
\* no entry of the call in the history; the personas after it are processed:
\* a returned call has one transcript entry for every other persona of its
\* order.
C12_UnusablePersonaSkipped ==
  \A c \in CallIds :
    calls[c].pc # "idle" =>
      /\ \A k \in SkippedPositions(c) :
           LET agentName == calls[c].respondingAgents[k]
           IN  /\ ~(InLoop(c) /\ calls[c].i = k)
               /\ \A j \in 1..Len(calls[c].responses) :
                    calls[c].responses[j].agent # agentName
               /\ \A j \in 1..Len(OwnAssistantEntries(c)) :
                    OwnAssistantEntries(c)[j].name # agentName
      /\ calls[c].pc = "returned" =>
           Cardinality({ j \in 1..Len(calls[c].responses) :
                           calls[c].responses[j].agent # "System" })
             = Len(calls[c].respondingAgents) - Cardinality(SkippedPositions(c))

\* a call has returned whose order held an unusable persona before a usable
\* one, with the entry of the latter in its transcript
C12_Witness ==
  \E c \in CallIds :
    /\ calls[c].pc = "returned"
    /\ \E k \in SkippedPositions(c) :
         \E m \in (k + 1)..Len(calls[c].respondingAgents) :
           /\ m \notin SkippedPositions(c)
           /\ Last(calls[c].responses).agent = calls[c].respondingAgents[m]

\* the message has the form "A, ..." for the short name of the persona and
\* holds the short name of no other persona
NamesOnly(message, agentName) ==
  LET messageLower == ToLowerCase(message)
  IN  /\ StartsWith(messageLower, ToLowerCase(ShortName(agentName)) \o ",")
      /\ \A other \in AgentNames \ {agentName} :
           ~Includes(messageLower, ToLowerCase(ShortName(other)))

NamesOnlyTable ==
  Tabulated([message \in TableMessages, agentName \in AgentNames |->
               NamesOnly(message, agentName)])

\* C13: a turn whose message has the form "A, ..." and names only persona A
\* has the speaking order <<A>> and does not invoke the selector, whatever
\* else the message holds and whatever the turn number.
C13_DirectAddressPrecedence ==
  \A c \in CallIds :
    calls[c].pc # "idle" =>
      \A agentName \in AgentNames :
        NamesOnlyTable[calls[c].message, agentName] =>
          /\ calls[c].respondingAgents = <<agentName>>
          /\ ~calls[c].selectorInvoked

\* the second turn of a session addresses one persona in a message that also
\* holds a domain keyword and a comprehensive cue, and only that persona is
\* in the order
C13_Witness ==
  \E c \in CallIds, agentName \in AgentNames :
    /\ calls[c].pc # "idle"
    /\ sessionContexts[calls[c].sessionId].turn = 2
    /\ c = 2
    /\ NamesOnlyTable[calls[c].message, agentName]
    /\ calls[c].message = "Clara, all token"
    /\ IsBlockchainQuery("clara, all token")
    /\ IncludesAny("clara, all token", comprehensiveTerms)
    /\ calls[c].respondingAgents = <<agentName>>

\* the personas the addressing check of the orchestrator finds in the message
\* of call c, in the order of the roster
AddressedAgentsTable ==
  Tabulated([message \in TableMessages |->
               SelectSeq2(defaultAgentSequence,
                          { agentName \in AgentNames :
                              IsDirectlyAddressed(ToLowerCase(message), agentName) })])

AddressedAgents(c) == AddressedAgentsTable[calls[c].message]

AddressedAsStated(message, agentName) ==
  LET messageLower == ToLowerCase(message)
      short == ToLowerCase(ShortName(agentName))
      full == ToLowerCase(agentName)
  IN  \/ StartsWith(messageLower, short) \/ StartsWith(messageLower, full)
      \/ Includes(messageLower, short \o ",") \/ Includes(messageLower, short \o ":")
      \/ Includes(messageLower, full \o ",") \/ Includes(messageLower, full \o ":")

AddressedAsStatedTable ==
  Tabulated([message \in TableMessages, agentName \in AgentNames |->
               AddressedAsStated(message, agentName)])

\* C15 (as the specification states it): a persona whose short or full name
\* starts the lower-case message, or is followed in it by a comma or a colon,
\* is taken as directly addressed: it is in the speaking order, the order does
\* not come from the selector and directlyAddressed is true.
C15_AddressedByNameAtStart ==
  \A c \in CallIds :
    calls[c].pc # "idle" =>
      \A agentName \in AgentNames :
        AddressedAsStatedTable[calls[c].message, agentName]
            => /\ InSeq(calls[c].respondingAgents, agentName)
               /\ ~calls[c].selectorInvoked
               /\ sessionContexts[calls[c].sessionId].directlyAddressed

\* C16 (as the specification states it): while the responses of a turn whose
\* message addresses no persona are normalized, directlyAddressed is false
\* in the signals the normalizer reads, whatever an earlier turn of the
\* session has left.
C16_DirectlyAddressedRecomputed ==
  \A c \in CallIds :
    ( /\ calls[c].pc # "idle"
      /\ AddressedAgents(c) = <<>>
      /\ OwnAssistantPositions(c) # {} )
    => ~calls[c].signals.directlyAddressed

\* C17 (as the specification states it): when a turn starts on a session
\* that has had a turn before, and its speaking order is resolved, lastAgent
\* holds nothing of the turn before.
C17_LastAgentResetEachTurn ==
  [][\A c \in CallIds :
       ( /\ calls[c].pc = "idle"
         /\ calls'[c].pc # "idle"
         /\ calls'[c].sessionId \in DOMAIN sessionContexts )
       => sessionContexts[calls'[c].sessionId].lastAgent = ""]_vars

(***************************************************************************)
(* The turn counter and the history.                                       *)
(***************************************************************************)
\* the processMessage calls that have started on session s
CallsOn(s) == { c \in CallIds : calls[c].pc # "idle" /\ calls[c].sessionId = s }

\* C18: the turn of a session is the number of processMessage calls made for
\* it so far, whether they have returned or not; a session without call has
\* no context yet (its context starts with turn 0).  As the calls made for a
\* session only grow in number, and only by calls for that session, turn
\* never decreases and calls for other sessions leave it as it is.
C18_TurnCountsCalls ==
  /\ \A s \in DOMAIN sessionContexts : sessionContexts[s].turn = Cardinality(CallsOn(s))
  /\ \A s \in Sessions \ DOMAIN sessionContexts : CallsOn(s) = {}

\* two calls are under way on one session at once, whose turn is 2, while
\* the other session has had no call
C18_Witness ==
  \E s \in DOMAIN sessionContexts :
    /\ sessionContexts[s].turn = 2
    /\ \A c \in {1, 2} : InLoop(c) /\ calls[c].sessionId = s
    /\ DOMAIN sessionContexts = {s}

IsPrefix(p, q) == Len(p) <= Len(q) /\ SubSeq(q, 1, Len(p)) = p

\* the positions of the history of its session that call c has pushed
OwnPositions(c) ==
  { k \in 1..Len(historyCalls[calls[c].sessionId]) : historyCalls[calls[c].sessionId][k] = c }

\* the entries of call c in the history of its session: one user entry with
\* its message, before every assistant entry of the call, and the assistant
\* entries are those of the usable personas of its speaking order, in order
TurnEntriesInOrder(c) ==
  LET h == sessionContexts[calls[c].sessionId].messageHistory
      own == OwnPositions(c)
      users == { k \in own : h[k].role = "user" }
      assistants == { k \in own : h[k].role = "assistant" }
      usable == SelectSeq(calls[c].respondingAgents, LAMBDA a : runtimes[a].generateText)
  IN  /\ Cardinality(users) = 1
      /\ \A k \in users : h[k].content = calls[c].message
      /\ \A k \in users, m \in assistants : k < m
      /\ Cardinality(assistants) <= Len(usable)
      /\ \A m \in assistants :
           h[m].name = usable[Cardinality({ k \in assistants : k <= m })]

\* C19: every step leaves the history of every session as a prefix of what
\* it is afterwards, and after every step that starts a call or touches the
\* history of its session the entries of the call stand in the history with
\* the user entry first and the assistant entries in speaking order.
C19_HistoryAppendOnly ==
  [][ /\ \A s \in DOMAIN sessionContexts :
           /\ s \in DOMAIN sessionContexts'
           /\ IsPrefix(sessionContexts[s].messageHistory, sessionContexts'[s].messageHistory)
      /\ \A c \in CallIds :
           ( /\ calls'[c].pc # "idle"
             /\ \/ calls[c].pc = "idle"
                \/ sessionContexts'[calls[c].sessionId].messageHistory
                     # sessionContexts[calls[c].sessionId].messageHistory )
           => TurnEntriesInOrder(c)' ]_vars

\* a session has the entries of two calls in its history, the second call
\* having started before the first one ended, and one of them has two
\* assistant entries
C19_Witness ==
  \E s \in DOMAIN sessionContexts :
    /\ Len(sessionContexts[s].messageHistory) >= 5
    /\ \A c \in {1, 2} : calls[c].pc = "returned" /\ calls[c].sessionId = s
    /\ \E k \in 1..(Len(historyCalls[s]) - 2) :
         historyCalls[s][k] = 1 /\ historyCalls[s][k + 1] = 2 /\ historyCalls[s][k + 2] = 1
    /\ \E c \in {1, 2} : Len(OwnAssistantEntries(c)) >= 2

\* the entries of personas in the transcript of turn c
PersonaEntries(c) ==
  Cardinality({ j \in 1..Len(calls[c].responses) : calls[c].responses[j].agent # "System" })

\* one user entry and the entries of the personas that produced output, summed
\* over the turns 1..n
EntriesOfTurns ==
  LET sum[n \in 0..MaxTurns] == IF n = 0 THEN 0 ELSE sum[n - 1] + 1 + PersonaEntries(n)
  IN  sum

\* the turns 1..n have returned and no other has started
AfterTurns(n) ==
  /\ \A c \in 1..n : calls[c].pc = "returned"
  /\ \A c \in (n + 1)..MaxTurns : calls[c].pc = "idle"

UserPositions(s) ==
  { k \in 1..Len(sessionContexts[s].messageHistory) :
      sessionContexts[s].messageHistory[k].role = "user" }

\* the entry before the user entry of turn n is the topic-change marker
MarkerBeforeTurn(s, n) ==
  LET history == sessionContexts[s].messageHistory
      k == Nth(UserPositions(s), n)
  IN  /\ k > 1
      /\ history[k - 1] = [role |-> "system", content |-> "--- Topic change ---", name |-> ""]

\* C21: in every turn n >= 2 of a session, when the new-topic test of the
\* message of turn n against the message of turn n-1 is positive, the entry
\* of the history immediately before the user entry of turn n is the
\* system entry "--- Topic change ---".
C21_MarkerAgainstPreviousMessage ==
  \A n \in 2..MaxTurns :
    (calls[n].pc # "idle"
       /\ isNewTopicTable[<<calls[n].message, calls[n - 1].message>>])
      => MarkerBeforeTurn("default", n)

AppliedLate(t) ==
  /\ evaluation.op = "selectAgents"
  /\ evaluation.applied
  /\ Includes(LowerCaseTable[evaluation.message], t)
  /\ evaluation.context.turn > 2

\* the personas the selector finds mentioned in the message in hand (step 2)
Mentioned ==
  getExplicitlyMentionedAgents(LowerCaseTable[evaluation.message], evaluation.availableAgents)

\* the topical override of step 1 applies to the message in hand
TopicalOverride ==
  /\ IsBlockchainQuery(LowerCaseTable[evaluation.message])
  /\ InSeq(evaluation.availableAgents, "Analyst Alex")

\* every result has n personas
AllOfSize(n) == \A order \in evaluation.results : Len(order) = n

\* C23 (as the specification states it): for a message that contains
\* "everyone" and a context with turn > 2, what the selector returns has the
\* size of the available roster, whatever the draws.  (The reordering moves
\* one selected persona to the front, so the result has the size of the
\* selection before it.)
C23_EveryoneGivesFullRoster ==
  AppliedLate("everyone") => AllOfSize(Len(evaluation.availableAgents))

\* C23 (amended): the same for a message in which the selector finds no
\* persona mentioned.
C23_EveryoneUnlessMentioned ==
  (AppliedLate("everyone") /\ Mentioned = <<>>)
    => AllOfSize(Len(evaluation.availableAgents))

\* "Hello everyone" at a turn beyond 2 with the whole roster: every draw
\* gives the three personas, in more than one order
C23_Witness ==
  /\ AppliedLate("everyone")
  /\ Mentioned = <<>>
  /\ evaluation.availableAgents = defaultAgentSequence
  /\ AllOfSize(3)
  /\ Cardinality(evaluation.results) > 1

\* C24 (as the specification states it): for a message that contains
\* "briefly" and a context with turn > 2, with no persona addressed or
\* mentioned and no comprehensive cue, the selector returns exactly one
\* persona, whatever the draws.
C24_BrieflyGivesOne ==
  ( /\ AppliedLate("briefly")
    /\ getDirectlyAddressedAgents(evaluation.message, evaluation.availableAgents) = <<>>
    /\ Mentioned = <<>>
    /\ ~IncludesAny(LowerCaseTable[evaluation.message], comprehensiveTerms) )
    => AllOfSize(1)

\* C24 (amended): the same for a message to which the topical override does
\* not apply.
C24_BrieflyUnlessOverride ==
  ( /\ AppliedLate("briefly")
    /\ getDirectlyAddressedAgents(evaluation.message, evaluation.availableAgents) = <<>>
    /\ Mentioned = <<>>
    /\ ~IncludesAny(LowerCaseTable[evaluation.message], comprehensiveTerms)
    /\ ~TopicalOverride )
    => AllOfSize(1)

\* "Briefly say hi" at a turn beyond 2: one persona, and the draws decide
\* which
C24_Witness ==
  /\ AppliedLate("briefly")
  /\ Mentioned = <<>>
  /\ ~IncludesAny(LowerCaseTable[evaluation.message], comprehensiveTerms)
  /\ ~TopicalOverride
  /\ AllOfSize(1)
  /\ Cardinality(evaluation.results) > 1

\* the place of a persona in an order
PlaceIn(order, agent) == CHOOSE i \in 1..Len(order) : order[i] = agent

\* the keyword part of the score of a persona for the message in hand
KeywordScoreOf(agent) == KeywordScoreTable[<<LowerCaseTable[evaluation.message], agent>>]

\* the persona would get the bonus of +1.5 (no entry among the last six)
HasBonus(agent) == RecentSpeakerCount(evaluation.context, agent) = 0

\* C25: in every ranking rankAgentsByRelevance can return, whatever the
\* jitter of each persona and whichever of the two has the bonus for recent
\* silence, a persona that is lastAgent stands after every available
\* persona that is not lastAgent and has the same keyword score.
C25_LastAgentNeverOutranks ==
  (evaluation.op = "selectAgents" /\ evaluation.applied) =>
    \A ranking \in evaluation.rankings :
      \A i \in 1..Len(ranking), j \in 1..Len(ranking) :
        ( /\ ranking[i] = evaluation.context.lastAgent
          /\ ranking[j] # evaluation.context.lastAgent
          /\ KeywordScoreOf(ranking[i]) = KeywordScoreOf(ranking[j]) )
          => j < i

\* the rankings of a message with a keyword of Analyst Alex and one of
\* Curious Clara of equal weight: Alex is lastAgent and has the bonus, Clara
\* has not, and Alex stands after Clara whatever the jitter
C25_Witness ==
  /\ evaluation.op = "selectAgents" /\ evaluation.applied
  /\ evaluation.availableAgents = defaultAgentSequence
  /\ evaluation.context.lastAgent = "Analyst Alex"
  /\ KeywordScoreOf("Analyst Alex") = KeywordScoreOf("Curious Clara")
  /\ KeywordScoreOf("Analyst Alex") > 0
  /\ HasBonus("Analyst Alex") /\ ~HasBonus("Curious Clara")
  /\ evaluation.rankings # {}
  /\ \A ranking \in evaluation.rankings :
       PlaceIn(ranking, "Curious Clara") < PlaceIn(ranking, "Analyst Alex")

\* the message in hand contains one of the terms
HasCue(terms) == IncludesAny(LowerCaseTable[evaluation.message], terms)

\* the order holds every available persona once
WholeRoster(order) ==
  /\ Len(order) = Len(evaluation.availableAgents)
  /\ \A i \in 1..Len(evaluation.availableAgents) : InSeq(order, evaluation.availableAgents[i])

\* C30: the number of personas that should speak is decided by the first
\* rule that matches: a turn up to 2 gives all (3, the size of the largest
\* roster); then a comprehensive cue gives all, a focused cue in the same
\* message notwithstanding; then a focused cue gives 1; then the draws give
\* 1, 2 or all.  And for a turn up to 2, with no persona mentioned and no
\* topical override, every available persona is selected.
C30_FirstMatchingRule ==
  (evaluation.op = "selectAgents" /\ evaluation.applied) =>
    /\ evaluation.responseCounts =
         ( IF evaluation.context.turn <= 2 THEN {3}
           ELSE IF HasCue(comprehensiveTerms) THEN {3}
           ELSE IF HasCue(focusedTerms) THEN {1}
           ELSE {1, 2, 3} )
    /\ ( /\ evaluation.context.turn <= 2
         /\ Mentioned = <<>>
         /\ ~TopicalOverride )
         => \A order \in evaluation.results : WholeRoster(order)

\* a message with a focused and a comprehensive cue at a turn beyond 2: all
\* three personas are returned
C30_Witness ==
  /\ evaluation.op = "selectAgents" /\ evaluation.applied
  /\ evaluation.context.turn > 2
  /\ HasCue(comprehensiveTerms) /\ HasCue(focusedTerms)
  /\ evaluation.availableAgents = defaultAgentSequence
  /\ evaluation.responseCounts = {3}
  /\ \A order \in evaluation.results : WholeRoster(order)

\* the text ends with '.', '!' or '?'
EndsAtTerminator(t) == Len(t) > 0 /\ CharAt(t, Len(t)) \in {".", "!", "?"}

\* the text has a span in parentheses, starts with a disclaimer, or refers
\* to the persona in the third person: the forms steps 1, 2 and 4 look for
HasParenthetical(t) == RemoveParentheticals(t) # t

HasDisclaimer(t) ==
  \E k \in 1..Len(aiPrefixes) : StartsWith(ToLowerCase(t), ToLowerCase(aiPrefixes[k]))

HasSelfReference(t, agentName) ==
  ReplaceSelfReference(ReplaceSelfReference(t, agentName), FirstNameOf(agentName)) # t

\* C26: for a text with no parenthetical, no disclaimer and no third-person
\* self-reference that stays under the length limit, processResponse
\* applied to its own result returns that result.
C26_Idempotent ==
  ( /\ evaluation.op = "processResponse"
    /\ evaluation.applied = 2
    /\ ~HasParenthetical(evaluation.responseText)
    /\ ~HasDisclaimer(evaluation.responseText)
    /\ ~HasSelfReference(evaluation.responseText, evaluation.agentName)
    /\ evaluation.once = {CleanResponse(evaluation.responseText, evaluation.agentName)} )
    => evaluation.twice = evaluation.once

\* C27: what processResponse returns holds no '(' and no ')', and for the
\* text "(smiles) I think this is important." of Analyst Alex it begins
\* with "I think this is important."
C27_ParentheticalsRemoved ==
  (evaluation.op = "processResponse" /\ evaluation.applied >= 1) =>
    \A t \in evaluation.once :
      /\ ~Includes(t, "(")
      /\ ~Includes(t, ")")
      /\ ( /\ evaluation.responseText = "(smiles) I think this is important."
           /\ evaluation.agentName = "Analyst Alex" )
           => StartsWith(t, "I think this is important.")

\* the text has a sentence end within a fifth of the limit around the limit
BoundaryNear(t, limit) ==
  \E i \in (limit - limit \div 5)..(limit + limit \div 5) :
    i <= Len(t) /\ CharAt(t, i) \in {".", "!", "?"}

\* C28: for a text three times as long as the base limit B of the persona,
\* with no sentence end near position B, what the length adjustment returns
\* has at most B characters and ends with '.', '!' or '?', for every turn,
\* addressed or not, and every draw.
C28_CutToBaseLimit ==
  ( /\ evaluation.op = "applyDynamicLengthAdjustment"
    /\ evaluation.applied = 1
    /\ Len(evaluation.responseText) = 3 * BaseLimit(evaluation.agentName)
    /\ ~BoundaryNear(evaluation.responseText, BaseLimit(evaluation.agentName)) )
    => \A cut \in evaluation.cuts :
         /\ Len(cut.text) <= BaseLimit(evaluation.agentName)
         /\ EndsAtTerminator(cut.text)

\* C29: a cleaned text no longer than the computed limit is returned as it
\* is; a longer one gives a text no longer than the limit that starts the
\* cleaned text and ends with '.', '!' or '?'.
C29_CutToComputedLimit ==
  (evaluation.op = "applyDynamicLengthAdjustment" /\ evaluation.applied = 1) =>
    \A cut \in evaluation.cuts :
      IF Len(evaluation.responseText) <= cut.charLimit
        THEN cut.text = evaluation.responseText
        ELSE /\ Len(cut.text) <= cut.charLimit
             /\ StartsWith(evaluation.responseText, cut.text)
             /\ EndsAtTerminator(cut.text)

\* selectAgents has been applied to the message and context in hand
SelectorApplied == evaluation.op = "selectAgents" /\ evaluation.applied

\* the message in hand holds a keyword of the specialized domain
HasDomainKeyword == IncludesAny(LowerCaseTable[evaluation.message], blockchainKeywords)

\* the available personas the message in hand mentions, in the order of the
\* roster
MentionedInRosterOrder ==
  SelectSeq2(evaluation.availableAgents,
             { a \in AgentNames :
                 /\ InSeq(evaluation.availableAgents, a)
                 /\ IsExplicitlyMentioned(LowerCaseTable[evaluation.message], a) })

C32_MentionedReturnedAsIs ==
  (SelectorApplied /\ ~TopicalOverride /\ MentionedInRosterOrder # <<>>)
    => evaluation.results = {MentionedInRosterOrder}

\* two personas are mentioned, the later of the roster first in the message,
\* at a turn beyond 2 and with the first of them the last speaker
C32_Witness ==
  /\ SelectorApplied
  /\ ~TopicalOverride
  /\ Len(MentionedInRosterOrder) = 2
  /\ evaluation.context.turn > 2
  /\ evaluation.context.lastAgent = MentionedInRosterOrder[1]
  /\ evaluation.results = {MentionedInRosterOrder}

\* the personas the relationship table gives as the followers of lastAgent
FollowersOfLastAgent ==
  { relationshipPatterns(evaluation.context.lastAgent)[k][1] :
      k \in 1..Len(relationshipPatterns(evaluation.context.lastAgent)) }

\* C33: whatever applyRelationshipBasedOrdering is handed and whatever its
\* draws, what it returns is what it was handed, or one persona of it that is
\* a follower of lastAgent in the table, followed by the others in the order
\* they had; and it returns what it was handed when lastAgent is unset, the
\* turn is below 2 or fewer than 2 personas are selected.
C33_MoveToFrontOnly ==
  SelectorApplied =>
    \A p \in evaluation.reorderings :
      /\ \/ p[2] = p[1]
         \/ \E follower \in FollowersOfLastAgent :
              /\ InSeq(p[1], follower)
              /\ p[2] = <<follower>> \o FilterOut(p[1], follower)
      /\ ( \/ evaluation.context.lastAgent = ""
           \/ evaluation.context.turn < 2
           \/ Len(p[1]) < 2 ) => p[2] = p[1]

\* three personas were selected and the second, the second follower of
\* lastAgent in the table, was moved to the front
C33_Witness ==
  /\ SelectorApplied
  /\ \E p \in evaluation.reorderings :
       /\ Len(p[1]) = 3
       /\ p[2] = <<p[1][2], p[1][1], p[1][3]>>
       /\ p[2][1] = relationshipPatterns(evaluation.context.lastAgent)[2][1]

\* C34 (as the specification states it): when turn n > 1 of a conversation
\* held turn after turn hands its message to the selector, the persona the
\* ranking penalises, context.lastAgent, is the persona of the last entry of
\* the transcript of turn n - 1.
C34_PenaltyOnLastSpeaker ==
  [][\A c \in CallIds \ {1} :
       ( /\ calls[c].pc = "idle"
         /\ calls'[c].pc # "idle"
         /\ calls'[c].selectorInvoked
         /\ calls[c - 1].pc = "returned"
         /\ calls[c - 1].sessionId = calls'[c].sessionId
         /\ Last(calls[c - 1].responses).agent # "System" )
       => sessionContexts[calls'[c].sessionId].lastAgent
            = Last(calls[c - 1].responses).agent]_vars

\* the order has no persona twice
DuplicateFree(order) ==
  \A i \in 1..Len(order) : \A j \in 1..Len(order) : order[i] = order[j] => i = j

\* the order is of personas of the available roster, each at most once, and
\* has at least one persona
SoundOrder(order) ==
  /\ order # <<>>
  /\ DuplicateFree(order)
  /\ \A i \in 1..Len(order) : InSeq(evaluation.availableAgents, order[i])

\* C35: whatever the message, the context and the draws, the speaking order
\* determineRespondingAgents returns, by direct addressing or through the
\* selector, and the order selectAgents returns, name personas of the
\* available roster only, none twice, and at least one.
C35_SoundSpeakingOrder ==
  SelectorApplied =>
    /\ \A order \in evaluation.respondingAgents : SoundOrder(order)
    /\ \A order \in evaluation.results : SoundOrder(order)

\* the message addresses two personas, which gives the order by itself,
\* where the selector would have returned the whole roster
C35_Witness ==
  /\ SelectorApplied
  /\ evaluation.respondingAgents = {<<"Curious Clara", "Strategic Sam">>}
  /\ evaluation.results = {defaultAgentSequence}

C37_NoEmptyTranscriptText ==
  \A c \in CallIds :
    \A j \in 1..Len(calls[c].responses) : calls[c].responses[j].message # ""

\* the entries of personas in the transcript of turn c, in order
PersonaTranscript(c) ==
  SelectSeq(calls[c].responses, LAMBDA r : r.agent # "System")

\* C38 (as the specification states it): when a turn of a conversation held
\* turn after turn has returned, the persona entries of its transcript and
\* the assistant entries it has pushed to the history are as many, in the
\* same order, by the same personas and with the same texts, also when an
\* entry comes from the catch block of the loop over the personas.
C38_TranscriptMatchesHistory ==
  \A c \in CallIds :
    calls[c].pc = "returned" =>
      /\ Len(PersonaTranscript(c)) = Len(OwnAssistantEntries(c))
      /\ \A j \in 1..Len(PersonaTranscript(c)) :
           j <= Len(OwnAssistantEntries(c)) =>
             /\ OwnAssistantEntries(c)[j].content = PersonaTranscript(c)[j].message
             /\ OwnAssistantEntries(c)[j].name = PersonaTranscript(c)[j].agent

\* the number of "--- Topic change ---" system entries in a history
MarkerCount(history) ==
  Cardinality({ k \in 1..Len(history) :
                  history[k].role = "system" /\ history[k].content = "--- Topic change ---" })

\* the markers in the history of session s, none for a session not seen yet
MarkersOf(contexts, s) ==
  IF s \in DOMAIN contexts THEN MarkerCount(contexts[s].messageHistory) ELSE 0

\* C39: after every step, the history of every session has as many
\* "--- Topic change ---" entries as previousTopics has topics; a step keeps
\* the previous topics there were as they are and only appends, adds at most
\* one marker, and adds none when it takes the first message of a session.
C39_TopicsMatchMarkers ==
  [][\A s \in DOMAIN sessionContexts' :
       /\ s \in DOMAIN sessionTopics'
       /\ MarkersOf(sessionContexts', s) = Len(sessionTopics'[s].previousTopics)
       /\ s \in DOMAIN sessionTopics
            => IsPrefix(sessionTopics[s].previousTopics, sessionTopics'[s].previousTopics)
       /\ MarkersOf(sessionContexts', s) <= MarkersOf(sessionContexts, s) + 1
       /\ s \notin DOMAIN sessionContexts => MarkersOf(sessionContexts', s) = 0]_vars

\* the third turn of a session has started with a topic change and waits
\* for its first persona: one marker, and "general" as the one previous
\* topic
C39_Witness ==
  /\ calls[3].pc = "generating"
  /\ "default" \in DOMAIN sessionContexts
  /\ MarkersOf(sessionContexts, "default") = 1
  /\ sessionTopics["default"].previousTopics = <<"general">>

====
